---- MODULE Spec2Model ----
(***************************************************************************)
(* httpfromtcp: the response writer (internal/response), the incremental  *)
(* request parser (internal/request, internal/headers) and the connection *)
(* server (cmd/httpserver).                                                *)
(*                                                                         *)
(* Byte strings are sequences of one-character strings.  A Go map is a    *)
(* function whose domain is its key set; iterating a map visits the keys  *)
(* in an order the runtime chooses, so every loop over a map takes the    *)
(* order as a nondeterministic input.                                      *)
(***************************************************************************)
EXTENDS Integers, Sequences, FiniteSets, TLC

VARIABLES
    w,          \* the response.Writer (its fields, and the io.Writer it wraps)
    call,       \* the Writer method called last
    ret,        \* the error that call returned
    payloads,   \* the payloads of the WriteChunkedBody calls that returned nil
    nFlush,     \* Flush calls made so far
    input,      \* the bytes the io.Reader holds for RequestFromReader
    pos,        \* how many of them it has delivered
    buf,        \* RequestFromReader: buf (all len(buf) bytes of it)
    readToIndex, \* RequestFromReader: readToIndex
    request,    \* RequestFromReader: *request
    pc,         \* RequestFromReader: "loop", "returned" or "panicked"
    err,        \* the error RequestFromReader returned (Nil: it returned request)
    rd,         \* the last Read: the bytes and the error it returned
    plain,      \* every Read so far returned some bytes and nil, or 0 and io.EOF
    hdrs,       \* a headers.Headers that Parse is called on
    hdata,      \* the data of the last Parse call
    hret,       \* what that call returned: n, done, err
    hlog,       \* the cases of the Parse calls made on hdrs, in order
    run,        \* Server.State, the run flag
    listener,   \* Server.Listener: "open" or "closed"
    lpc,        \* where Server.listen is: "top", "accept", "failed", "exited"
    closer,     \* where the caller of Server.Close is: "idle", "stored", "done"
    conn,       \* per connection: its task (Server.handle) and what it did
    logged,     \* the "Error accepting connection" lines logged
    proc        \* the process: "up" or "exited"

wvars == <<w, call, ret, payloads, nFlush>>
pvars == <<input, pos, buf, readToIndex, request, pc, err, rd, plain>>
hvars == <<hdrs, hdata, hret, hlog>>
svars == <<run, listener, lpc, closer, conn, logged, proc>>
vars == <<w, call, ret, payloads, nFlush,
          input, pos, buf, readToIndex, request, pc, err, rd, plain,
          hdrs, hdata, hret, hlog,
          run, listener, lpc, closer, conn, logged, proc>>

----------------------------------------------------------------------------
(* Bounds of the model *)

\* accepted WriteChunkedBody calls per response
MaxChunks == 2
\* Flush calls per response
MaxFlush == 2
\* the io.Writer may start failing after 0..MaxSinkWrites successful writes
MaxSinkWrites == 1
\* Parse calls on one Headers
MaxParse == 3

----------------------------------------------------------------------------
(* Bytes *)

CRLF == <<"\r", "\n">>
ColonSp == <<":", " ">>
Digits == <<"0", "1", "2", "3", "4", "5", "6", "7", "8", "9",
            "a", "b", "c", "d", "e", "f">>

RECURSIVE FmtBase(_, _)
FmtBase(n, b) ==
    IF n < b THEN <<Digits[n + 1]>>
    ELSE FmtBase(n \div b, b) \o <<Digits[(n % b) + 1]>>

\* fmt.Sprintf("%d", n), n >= 0
FmtDec(n) == FmtBase(n, 10)

\* fmt.Sprintf("%x", n), n >= 0
FmtHexAsDec(n) == FmtBase(n, 10)
FmtHex(n) == FmtBase(n, 16)

RECURSIVE Flatten(_)
Flatten(ss) == IF ss = <<>> THEN <<>> ELSE Head(ss) \o Flatten(Tail(ss))

\* the set of all orders in which a map with key set S can be iterated
Orders(S) == {o \in [1..Cardinality(S) -> S] :
                 \A i, j \in 1..Cardinality(S) : i # j => o[i] # o[j]}

----------------------------------------------------------------------------
(* headers.Headers as used by the writer: map[string]string *)

NewHeaders == [k \in {} |-> <<>>]

MapSet(m, k, v) == [x \in DOMAIN m \cup {k} |-> IF x = k THEN v ELSE m[x]]

MapMerge(m, h) == [x \in DOMAIN m \cup DOMAIN h |->
                      IF x \in DOMAIN h THEN h[x] ELSE m[x]]

TransferEncoding == <<"t","r","a","n","s","f","e","r","-",
                      "e","n","c","o","d","i","n","g">>
ContentLength == <<"c","o","n","t","e","n","t","-","l","e","n","g","t","h">>
Chunked == <<"c","h","u","n","k","e","d">>
XSum == <<"x","-","s","u","m">>
XB == <<"x","-","b">>

----------------------------------------------------------------------------
(* package response *)

StatusOK == 200
StatusBadRequest == 400
StatusServerError == 500

stateInitialized == 0
stateStatusWritten == 1
stateHeadersWritten == 2
stateBodyWritten == 3
stateChunkedBodyStarted == 4
stateChunkedBodyDone == 5
stateTrailersWritten == 6

Nil == "nil"
ErrInvalidWriteState == "invalid state: operations must be called in order"
ErrStatusNotSet == "cannot flush response: status code not set"
ErrSink == "write error of the underlying writer"

(* The io.Writer under the response: out is the sequence of its Write     *)
(* calls that succeeded (kind names the statement that wrote, bytes what  *)
(* it wrote); left is the number of writes it still accepts, -1 when it   *)
(* never fails.  A failed write writes nothing and every later one fails. *)
SinkWrite(wr, kind, bytes) ==
    IF wr.left = 0
    THEN [wr |-> wr, err |-> TRUE]
    ELSE [wr |-> [out |-> Append(wr.out, [kind |-> kind, bytes |-> bytes]),
                  left |-> IF wr.left > 0 THEN wr.left - 1 ELSE wr.left],
          err |-> FALSE]

NewWriter(sink) ==
    [statusCode |-> 0,
     headers |-> NewHeaders,
     body |-> <<>>,
     writer |-> sink,
     state |-> stateInitialized,
     chunked |-> FALSE,
     trailers |-> NewHeaders]

WriteStatusLineUnguarded(wr, code) ==
    [w |-> [wr EXCEPT !.statusCode = code, !.state = stateStatusWritten],
     err |-> Nil]

WriteStatusLine(wr, code) ==
    IF wr.state # stateInitialized
    THEN [w |-> wr, err |-> ErrInvalidWriteState]
    ELSE [w |-> [wr EXCEPT !.statusCode = code, !.state = stateStatusWritten],
          err |-> Nil]

WriteHeaders(wr, h) ==
    IF wr.state # stateStatusWritten
    THEN [w |-> wr, err |-> ErrInvalidWriteState]
    ELSE LET merged == MapMerge(wr.headers, h)
             isChunked == /\ TransferEncoding \in DOMAIN merged
                          /\ merged[TransferEncoding] = Chunked
         IN [w |-> [wr EXCEPT !.headers = merged,
                              !.chunked = IF isChunked THEN TRUE ELSE @,
                              !.state = stateHeadersWritten],
             err |-> Nil]

WriteBodyLate(wr, p) ==
    IF wr.state < stateHeadersWritten
    THEN [w |-> wr, err |-> ErrInvalidWriteState]
    ELSE [w |-> [wr EXCEPT !.body = @ \o p, !.state = stateBodyWritten],
          err |-> Nil]

WriteBody(wr, p) ==
    IF wr.state # stateHeadersWritten
    THEN [w |-> wr, err |-> ErrInvalidWriteState]
    ELSE [w |-> [wr EXCEPT !.body = @ \o p, !.state = stateBodyWritten],
          err |-> Nil]

WriteChunkedBody(wr, p) ==
    IF wr.state # stateHeadersWritten /\ wr.state # stateChunkedBodyStarted
    THEN [w |-> wr, err |-> ErrInvalidWriteState]
    ELSE
      LET w1 == [wr EXCEPT !.chunked = TRUE, !.state = stateChunkedBodyStarted] IN
      IF Len(p) = 0 THEN [w |-> w1, err |-> Nil]
      ELSE
        LET f1 == SinkWrite(w1.writer, "chunk-size", FmtHex(Len(p)) \o CRLF) IN
        IF f1.err THEN [w |-> w1, err |-> ErrSink]
        ELSE
          LET f2 == SinkWrite(f1.wr, "chunk-data", p) IN
          IF f2.err THEN [w |-> [w1 EXCEPT !.writer = f1.wr], err |-> ErrSink]
          ELSE
            LET f3 == SinkWrite(f2.wr, "chunk-end", CRLF) IN
            IF f3.err THEN [w |-> [w1 EXCEPT !.writer = f2.wr], err |-> ErrSink]
            ELSE [w |-> [w1 EXCEPT !.writer = f3.wr], err |-> Nil]

WriteChunkedBodyDone(wr) ==
    IF wr.state # stateChunkedBodyStarted
    THEN [w |-> wr, err |-> ErrInvalidWriteState]
    ELSE
      LET f == SinkWrite(wr.writer, "last-chunk", <<"0">> \o CRLF) IN
      IF f.err THEN [w |-> wr, err |-> ErrSink]
      ELSE [w |-> [wr EXCEPT !.writer = f.wr, !.state = stateChunkedBodyDone],
            err |-> Nil]

\* for key, value := range m { fmt.Fprintf(w, "%s: %s\r\n", key, value) },
\* the keys visited in the order ord; stops at the first failed write
RECURSIVE WriteFieldLines(_, _, _, _)
WriteFieldLines(sink, kind, m, ord) ==
    IF ord = <<>> THEN [wr |-> sink, err |-> FALSE]
    ELSE
      LET k == Head(ord)
          f == SinkWrite(sink, kind, k \o ColonSp \o m[k] \o CRLF)
      IN IF f.err THEN f ELSE WriteFieldLines(f.wr, kind, m, Tail(ord))

WriteTrailers(wr, h, ord) ==
    IF wr.state # stateChunkedBodyDone
    THEN [w |-> wr, err |-> ErrInvalidWriteState]
    ELSE
      LET f1 == WriteFieldLines(wr.writer, "trailer", h, ord) IN
      IF f1.err THEN [w |-> [wr EXCEPT !.writer = f1.wr], err |-> ErrSink]
      ELSE
        LET f2 == SinkWrite(f1.wr, "final-crlf", CRLF) IN
        IF f2.err THEN [w |-> [wr EXCEPT !.writer = f1.wr], err |-> ErrSink]
        ELSE [w |-> [wr EXCEPT !.writer = f2.wr, !.state = stateTrailersWritten],
              err |-> Nil]

ReasonPhrase(code) ==
    CASE code = StatusOK -> <<"O", "K">>
      [] code = StatusBadRequest -> <<"B","a","d"," ","R","e","q","u","e","s","t">>
      [] code = StatusServerError ->
           <<"I","n","t","e","r","n","a","l"," ","S","e","r","v","e","r",
             " ","E","r","r","o","r">>
      [] OTHER -> <<>>

\* fmt.Sprintf("HTTP/1.1 %d %s\r\n", statusCode, reasonPhrase)
StatusLine(code) ==
    <<"H","T","T","P","/","1",".","1"," ">> \o FmtDec(code) \o <<" ">>
        \o ReasonPhrase(code) \o CRLF

\* the header map Flush iterates over: the point up to which Flush only
\* prepares (no write yet)
FlushPrepared(wr) ==
    LET w1 == IF wr.state < stateHeadersWritten
              THEN WriteHeaders(wr, NewHeaders).w ELSE wr
    IN IF w1.state = stateTrailersWritten \/ w1.state = stateChunkedBodyDone
          \/ w1.chunked
       THEN w1
       ELSE [w1 EXCEPT !.headers = MapSet(@, ContentLength, FmtDec(Len(w1.body)))]

StatusNotSetOffByOne(wr) == wr.state < stateInitialized
StatusNotSet(wr) == wr.state < stateStatusWritten

Flush(wr, ord) ==
    IF StatusNotSet(wr)
    THEN [w |-> wr, err |-> ErrStatusNotSet]
    ELSE
      LET w1 == IF wr.state < stateHeadersWritten
                THEN WriteHeaders(wr, NewHeaders).w ELSE wr
      IN
      IF w1.state = stateTrailersWritten THEN [w |-> w1, err |-> Nil]
      ELSE IF w1.state = stateChunkedBodyDone
      THEN LET f == SinkWrite(w1.writer, "final-crlf", CRLF) IN
           [w |-> [w1 EXCEPT !.writer = f.wr],
            err |-> IF f.err THEN ErrSink ELSE Nil]
      ELSE
        LET bodyBytes == w1.body
            w2 == FlushPrepared(wr)
            f1 == SinkWrite(w2.writer, "status", StatusLine(w2.statusCode))
        IN
        IF f1.err THEN [w |-> w2, err |-> ErrSink]
        ELSE
          LET f2 == WriteFieldLines(f1.wr, "header", w2.headers, ord) IN
          IF f2.err THEN [w |-> [w2 EXCEPT !.writer = f2.wr], err |-> ErrSink]
          ELSE
            LET f3 == SinkWrite(f2.wr, "blank", CRLF) IN
            IF f3.err THEN [w |-> [w2 EXCEPT !.writer = f2.wr], err |-> ErrSink]
            ELSE
              IF ~w2.chunked /\ Len(bodyBytes) > 0
              THEN LET f4 == SinkWrite(f3.wr, "body", bodyBytes) IN
                   IF f4.err
                   THEN [w |-> [w2 EXCEPT !.writer = f3.wr], err |-> ErrSink]
                   ELSE [w |-> [w2 EXCEPT !.writer = f4.wr], err |-> Nil]
              ELSE [w |-> [w2 EXCEPT !.writer = f3.wr], err |-> Nil]

----------------------------------------------------------------------------
(* Go strings and slices; indexes are Go's (from 0) *)

\* s[a:b]
Slice(s, a, b) == SubSeq(s, a + 1, b)

\* s[a:]
From(s, a) == SubSeq(s, a + 1, Len(s))

\* strings.Index(s, sub)
Index(s, sub) ==
    LET first(I) == IF I = {} THEN -1 ELSE CHOOSE i \in I : \A j \in I : i <= j
    IN first({i \in 0..(Len(s) - Len(sub)) : Slice(s, i, i + Len(sub)) = sub})

\* strings.Split(s, sep), sep one byte
RECURSIVE Split(_, _)
Split(s, sep) ==
    LET at(i) == IF i = -1 THEN <<s>>
                 ELSE <<Slice(s, 0, i)>> \o Split(From(s, i + 1), sep)
    IN at(Index(s, <<sep>>))

\* strings.HasPrefix(s, "/")
HasPrefixSlash(s) == Len(s) >= 1 /\ s[1] = "/"

DecDigits == <<"0", "1", "2", "3", "4", "5", "6", "7", "8", "9">>
IsDecDigit(c) == \E i \in 1..10 : DecDigits[i] = c
DecDigitValue(c) == (CHOOSE i \in 1..10 : DecDigits[i] = c) - 1

RECURSIVE DecValue(_)
DecValue(ds) ==
    IF ds = <<>> THEN 0
    ELSE 10 * DecValue(SubSeq(ds, 1, Len(ds) - 1)) + DecDigitValue(ds[Len(ds)])

\* strconv.Atoi(s): an optional sign, then one or more decimal digits
Atoi(s) ==
    LET digits(ds, neg) ==
            IF ds = <<>> \/ \E i \in 1..Len(ds) : ~IsDecDigit(ds[i])
            THEN [ok |-> FALSE, val |-> 0]
            ELSE [ok |-> TRUE, val |-> IF neg THEN 0 - DecValue(ds) ELSE DecValue(ds)]
    IN IF Len(s) >= 1 /\ s[1] \in {"+", "-"} THEN digits(Tail(s), s[1] = "-")
       ELSE digits(s, FALSE)

UpperCase == <<"A","B","C","D","E","F","G","H","I","J","K","L","M",
               "N","O","P","Q","R","S","T","U","V","W","X","Y","Z">>
LowerCase == <<"a","b","c","d","e","f","g","h","i","j","k","l","m",
               "n","o","p","q","r","s","t","u","v","w","x","y","z">>

\* strings.ToLower
ToLowerChar(c) ==
    IF \E i \in 1..26 : UpperCase[i] = c
    THEN LowerCase[CHOOSE i \in 1..26 : UpperCase[i] = c]
    ELSE c
ToLower(s) == [i \in 1..Len(s) |-> ToLowerChar(s[i])]

----------------------------------------------------------------------------
(* package headers: Headers.Parse *)

ErrInvalidData == "invalid headers, expected data"
ErrMalformedHeaderLine == "malformed header line"
ErrInvalidSpacing == "invalid spacing header"
ErrInvalidHeaderFieldName == "invalid header field name"

\* the token characters of RFC 7230 (but the backquote, which no string of
\* this module can hold and no input has)
TokenChars ==
    {UpperCase[i] : i \in 1..26} \cup {LowerCase[i] : i \in 1..26}
        \cup {DecDigits[i] : i \in 1..10}
        \cup {"!", "#", "$", "%", "&", "'", "*", "+", "-", ".", "^", "_", "|", "~"}

IsOWS(c) == c = " " \/ c = "\t"

RECURSIVE TrimLeft(_)
TrimLeft(s) == IF s # <<>> /\ IsOWS(Head(s)) THEN TrimLeft(Tail(s)) ELSE s

RECURSIVE TrimRight(_)
TrimRight(s) ==
    IF s # <<>> /\ IsOWS(s[Len(s)]) THEN TrimRight(SubSeq(s, 1, Len(s) - 1)) ELSE s

\* TrimOWS that leaves the spaces and tabs at the end
TrimOWSLeftOnly(s) == TrimLeft(s)

TrimOWS(s) == TrimRight(TrimLeft(s))

CommaSp == <<",", " ">>

\* Parse: there is no data
NoDataNever(data) == FALSE

NoData(data) == Len(data) = 0

\* Parse: the data begins with CRLF, the end of the header section
EndOfHeadersNever(lineEnd) == FALSE

EndOfHeaders(lineEnd) == lineEnd = 0

\* Parse: the data holds no CRLF yet
NeedMoreDataNever(lineEnd) == FALSE

NeedMoreData(lineEnd) == lineEnd = -1

\* Parse: what is wrong with a line whose first colon is at colonIdx (-1:
\* it has none), Nil when it is a field line
FieldErrorNoSpacing(line, colonIdx) ==
    IF colonIdx <= 0 THEN ErrMalformedHeaderLine
    ELSE IF \E i \in 1..colonIdx : line[i] \notin TokenChars
    THEN ErrInvalidHeaderFieldName
    ELSE Nil

FieldError(line, colonIdx) ==
    IF colonIdx <= 0 THEN ErrMalformedHeaderLine
    ELSE IF line[colonIdx] = " " THEN ErrInvalidSpacing
    ELSE IF \E i \in 1..colonIdx : line[i] \notin TokenChars
    THEN ErrInvalidHeaderFieldName
    ELSE Nil

\* Parse: the value stored under key, joined to the one that is there
StoreFieldOverwrite(h, key, value) == MapSet(h, key, value)

StoreField(h, key, value) ==
    MapSet(h, key, IF key \in DOMAIN h THEN h[key] \o CommaSp \o value ELSE value)

\* (h Headers) Parse(data) (n, done, err); h is the map after the call
Parse(h, data) ==
    LET fail(e) == [h |-> h, n |-> 0, done |-> FALSE, err |-> e]
        field(line, colonIdx, lineEnd, e) ==
            IF e # Nil THEN fail(e)
            ELSE [h |-> StoreField(h, ToLower(Slice(line, 0, colonIdx)),
                                   TrimOWS(From(line, colonIdx + 1))),
                  n |-> lineEnd + 2, done |-> FALSE, err |-> Nil]
        colon(line, colonIdx, lineEnd) ==
            field(line, colonIdx, lineEnd, FieldError(line, colonIdx))
        fieldLine(line, lineEnd) == colon(line, Index(line, <<":">>), lineEnd)
        upTo(lineEnd) ==
            IF EndOfHeaders(lineEnd)
            THEN [h |-> h, n |-> 2, done |-> TRUE, err |-> Nil]
            ELSE IF NeedMoreData(lineEnd)
            THEN [h |-> h, n |-> 0, done |-> FALSE, err |-> Nil]
            ELSE fieldLine(Slice(data, 0, lineEnd), lineEnd)
    IN IF NoData(data) THEN fail(ErrInvalidData) ELSE upTo(Index(data, CRLF))

\* (h Headers) Get(name): the value and whether there is one
Get(h, name) ==
    IF ToLower(name) \in DOMAIN h
    THEN [v |-> h[ToLower(name)], ok |-> TRUE]
    ELSE [v |-> <<>>, ok |-> FALSE]

----------------------------------------------------------------------------
(* package request *)

StateInitialized == 0
StateParsingRequestLine == 1
StateParsingHeaders == 2
StateParsingBody == 3
StateDone == 4

bufferSize == 8

ErrRequestLineParts == "invalid request line: expected 3 parts"
ErrInvalidMethod == "invalid method: expected GET, POST, PATCH, PUT, or DELETE"
ErrInvalidTarget == "invalid request target: must start with '/'"
ErrVersionMalformed == "invalid HTTP version: malformed version"
ErrVersionNot11 == "invalid HTTP version: expected 1.1"
ErrParsingHeaders == "error parsing headers: "
ErrInvalidContentLength == "invalid Content-Length"
ErrDoneState == "error: trying to read data in a done state"
ErrInvalidState == "invalid state"
ErrShortBody == "Body shorter than reported content length"
ErrIncomplete == "incomplete request"
ErrNoProgress == "no progress in reading or parsing"
EOF == "EOF"
ErrRead == "read error (deadline exceeded, connection reset)"
Panic == "panic: runtime error"

\* fmt.Errorf("error parsing headers: %w", err)
WrapHeaderErr(e) == ErrParsingHeaders \o e

GET == <<"G", "E", "T">>
POST == <<"P", "O", "S", "T">>
PATCH == <<"P", "A", "T", "C", "H">>
PUT == <<"P", "U", "T">>
DELETE == <<"D", "E", "L", "E", "T", "E">>
HTTP == <<"H", "T", "T", "P">>
V11 == <<"1", ".", "1">>

\* &Request{state: StateInitialized}.  A nil Headers map reads as the empty
\* map and parseHeaders replaces it by one before anything is stored.
NewRequest ==
    [RequestLine |-> [HttpVersion |-> <<>>, RequestTarget |-> <<>>, Method |-> <<>>],
     Headers |-> NewHeaders,
     Body |-> <<>>,
     BodyNil |-> TRUE,
     state |-> StateInitialized]

isValidMethodNoPut(method) == method \in {GET, POST, PATCH, DELETE}
isValidMethod(method) == method \in {GET, POST, PATCH, PUT, DELETE}

parseHttpVersion(version) ==
    LET of(parts) ==
            IF Len(parts) # 2 \/ parts[1] # HTTP
            THEN [v |-> <<>>, err |-> ErrVersionMalformed]
            ELSE IF parts[2] # V11 THEN [v |-> <<>>, err |-> ErrVersionNot11]
            ELSE [v |-> parts[2], err |-> Nil]
    IN of(Split(version, "/"))

parseRequestLine(r, data) ==
    LET r1 == IF r.state = StateInitialized
              THEN [r EXCEPT !.state = StateParsingRequestLine] ELSE r
        fail(e) == [r |-> r1, n |-> 0, err |-> e]
        versioned(parts, hv, lineEnd) ==
            IF hv.err # Nil THEN fail(hv.err)
            ELSE [r |-> [r1 EXCEPT !.RequestLine = [Method |-> parts[1],
                                                    RequestTarget |-> parts[2],
                                                    HttpVersion |-> hv.v],
                                   !.state = StateParsingHeaders],
                  n |-> lineEnd + 2, err |-> Nil]
        line(parts, lineEnd) ==
            IF Len(parts) # 3 THEN fail(ErrRequestLineParts)
            ELSE IF ~isValidMethod(parts[1]) THEN fail(ErrInvalidMethod)
            ELSE IF parts[2] = <<>> \/ ~HasPrefixSlash(parts[2])
            THEN fail(ErrInvalidTarget)
            ELSE versioned(parts, parseHttpVersion(parts[3]), lineEnd)
        upTo(lineEnd) ==
            IF lineEnd = -1 THEN [r |-> r1, n |-> 0, err |-> Nil]
            ELSE line(Split(Slice(data, 0, lineEnd), " "), lineEnd)
    IN upTo(Index(data, CRLF))

\* parseHeaders, the condition of its loops: bytes of data are left to give
\* to Parse
MoreToParseAlways(bytesParsed, data) == TRUE
MoreToParse(bytesParsed, data) == bytesParsed < Len(data)

\* parseHeaders, no "\r\n\r\n" in data: the loop over data[bytesParsed:]
RECURSIVE parseHeadersPartial(_, _, _)
parseHeadersPartial(r, data, bytesParsed) ==
    LET parsed(p, r1) ==
            IF p.err # Nil THEN [r |-> r1, n |-> 0, err |-> WrapHeaderErr(p.err)]
            ELSE IF p.n = 0 /\ ~p.done THEN [r |-> r1, n |-> bytesParsed, err |-> Nil]
            ELSE IF p.done
            THEN [r |-> [r1 EXCEPT !.state = StateParsingBody],
                  n |-> bytesParsed + p.n, err |-> Nil]
            ELSE parseHeadersPartial(r1, data, bytesParsed + p.n)
        returned(p) == parsed(p, [r EXCEPT !.Headers = p.h])
    IN IF ~MoreToParse(bytesParsed, data) THEN [r |-> r, n |-> bytesParsed, err |-> Nil]
       ELSE returned(Parse(r.Headers, From(data, bytesParsed)))

\* parseHeaders, "\r\n\r\n" in data: the loop over headerData[totalBytesParsed:];
\* the result is r after the loop, or the error
RECURSIVE parseHeadersComplete(_, _, _)
parseHeadersComplete(r, headerData, totalBytesParsed) ==
    LET parsed(p, r1) ==
            IF p.err # Nil THEN [r |-> r1, err |-> WrapHeaderErr(p.err)]
            ELSE IF p.done \/ p.n = 0 THEN [r |-> r1, err |-> Nil]
            ELSE parseHeadersComplete(r1, headerData, totalBytesParsed + p.n)
        returned(p) == parsed(p, [r EXCEPT !.Headers = p.h])
    IN IF ~MoreToParse(totalBytesParsed, headerData) THEN [r |-> r, err |-> Nil]
       ELSE returned(Parse(r.Headers, From(headerData, totalBytesParsed)))

parseHeaders(r, data) ==
    LET complete(emptyLinePos, l) ==
            IF l.err # Nil THEN [r |-> l.r, n |-> 0, err |-> l.err]
            ELSE [r |-> [l.r EXCEPT !.state = StateParsingBody],
                  n |-> emptyLinePos + 4, err |-> Nil]
        at(emptyLinePos) ==
            IF emptyLinePos = -1 THEN parseHeadersPartial(r, data, 0)
            ELSE complete(emptyLinePos,
                          parseHeadersComplete(r, Slice(data, 0, emptyLinePos + 4), 0))
    IN at(Index(data, CRLF \o CRLF))

Min(a, b) == IF a < b THEN a ELSE b

parseBody(r, data) ==
    LET appended(contentLength, bytesToCopy, r2) ==
            IF Len(r2.Body) = contentLength
            THEN [r |-> [r2 EXCEPT !.state = StateDone], n |-> bytesToCopy, err |-> Nil]
            ELSE [r |-> r2, n |-> bytesToCopy, err |-> Nil]
        copy(contentLength, bytesToCopy, r1) ==
            appended(contentLength, bytesToCopy,
                     [r1 EXCEPT !.Body = @ \o Slice(data, 0, bytesToCopy)])
        body(contentLength, r1) ==
            copy(contentLength, Min(Len(data), contentLength - Len(r1.Body)), r1)
        length(cl) ==
            IF ~cl.ok THEN [r |-> r, n |-> 0, err |-> ErrInvalidContentLength]
            \* make([]byte, 0, contentLength) with a negative capacity panics
            ELSE IF r.BodyNil /\ cl.val < 0 THEN [r |-> r, n |-> 0, err |-> Panic]
            ELSE body(cl.val,
                      IF r.BodyNil THEN [r EXCEPT !.BodyNil = FALSE, !.Body = <<>>]
                      ELSE r)
    IN IF Len(data) = 0 THEN [r |-> r, n |-> 0, err |-> Nil]
       ELSE IF ContentLength \notin DOMAIN r.Headers
       THEN [r |-> [r EXCEPT !.state = StateDone], n |-> 0, err |-> Nil]
       ELSE length(Atoi(r.Headers[ContentLength]))

parseSingle(r, data) ==
    CASE r.state \in {StateInitialized, StateParsingRequestLine} ->
             parseRequestLine(r, data)
      [] r.state = StateParsingHeaders -> parseHeaders(r, data)
      [] r.state = StateParsingBody -> parseBody(r, data)
      [] OTHER -> [r |-> r, n |-> 0, err |-> ErrInvalidState]

\* the loop of parseAndUpdateState, totalBytesParsed bytes of data parsed
RECURSIVE parseLoop(_, _, _)
parseLoop(r, data, totalBytesParsed) ==
    LET parsed(s) ==
            IF s.err # Nil THEN [r |-> s.r, n |-> totalBytesParsed, err |-> s.err]
            ELSE IF s.n = 0 THEN [r |-> s.r, n |-> totalBytesParsed, err |-> Nil]
            ELSE parseLoop(s.r, data, totalBytesParsed + s.n)
    IN IF r.state = StateDone THEN [r |-> r, n |-> totalBytesParsed, err |-> Nil]
       ELSE parsed(parseSingle(r, From(data, totalBytesParsed)))

parseAndUpdateStateRestarting(r, data) ==
    IF r.state = StateDone THEN [r |-> r, n |-> 0, err |-> ErrDoneState]
    ELSE parseLoop([r EXCEPT !.state = StateInitialized], data, 0)

parseAndUpdateState(r, data) ==
    IF r.state = StateDone THEN [r |-> r, n |-> 0, err |-> ErrDoneState]
    ELSE parseLoop(r, data, 0)

\* a byte of make([]byte, n)
NUL == "NUL"
Zeros(n) == [i \in 1..n |-> NUL]

\* copy(dst, src) on slices of one array: dst with its first
\* min(len(dst), len(src)) bytes replaced
Copy(dst, src) ==
    [i \in 1..Len(dst) |-> IF i <= Len(src) THEN src[i] ELSE dst[i]]

\* RequestFromReader, the head of an iteration: the buffer grown when full
GrownEmpty(b, rti) == IF rti = Len(b) THEN Zeros(Len(b) * 2) ELSE b
Grown(b, rti) == IF rti = Len(b) THEN Copy(Zeros(Len(b) * 2), b) ELSE b

\* RequestFromReader, Read returned io.EOF and the parse left r short of
\* StateDone: the error returned (Nil when the request is completed instead)
EOFErrorLenient(r) ==
    IF r.state = StateParsingBody THEN Nil ELSE ErrIncomplete

EOFErrorStrict(r) ==
    IF r.state = StateParsingBody /\ ContentLength \in DOMAIN r.Headers
    THEN ErrShortBody ELSE ErrIncomplete

EOFError(r) ==
    LET short(cl) == cl.ok /\ cl.val > 0 /\ (r.BodyNil \/ Len(r.Body) < cl.val)
    IN IF r.state = StateParsingBody
       THEN IF ContentLength \in DOMAIN r.Headers
               /\ short(Atoi(r.Headers[ContentLength]))
            THEN ErrShortBody ELSE Nil
       ELSE ErrIncomplete

\* RequestFromReader, the end of an iteration: n bytes read, consumed bytes
\* parsed
StuckNever(n, consumed) == FALSE
Stuck(n, consumed) == n = 0 /\ consumed = 0

\* RequestFromReader, one iteration of the loop from the state L, the Read
\* having stored chunk at buf[readToIndex:] and returned (len(chunk), rerr)
Iterate(L, chunk, rerr) ==
    LET n == Len(chunk)
        atEOF(e, done) ==
            IF e = Nil
            THEN [done EXCEPT !.request.state = StateDone]
                     @@ [pc |-> "returned", err |-> Nil]
            ELSE done @@ [pc |-> "returned", err |-> e]
        compacted(p, done) ==
            IF p.r.state = StateDone THEN done @@ [pc |-> "returned", err |-> Nil]
            ELSE IF rerr = EOF THEN atEOF(EOFError(p.r), done)
            ELSE IF rerr # Nil THEN done @@ [pc |-> "returned", err |-> rerr]
            ELSE IF Stuck(n, p.n)
            THEN done @@ [pc |-> "returned", err |-> ErrNoProgress]
            ELSE done @@ [pc |-> "loop", err |-> Nil]
        parsed(b1, rti, p) ==
            IF p.err # Nil
            THEN [buf |-> b1, readToIndex |-> rti, request |-> p.r,
                  pc |-> IF p.err = Panic THEN "panicked" ELSE "returned",
                  err |-> p.err]
            ELSE compacted(p, [buf |-> Copy(b1, From(b1, p.n)),
                               readToIndex |-> rti - p.n, request |-> p.r])
        read(b1, rti) == parsed(b1, rti, parseAndUpdateState(L.request, Slice(b1, 0, rti)))
        grown(b0) ==
            read([i \in 1..Len(b0) |->
                    IF i > L.readToIndex /\ i <= L.readToIndex + n
                    THEN chunk[i - L.readToIndex] ELSE b0[i]],
                 L.readToIndex + n)
    IN grown(Grown(L.buf, L.readToIndex))

\* no Headers is parsed into on its own
HeadersIdle ==
    /\ hdrs = NewHeaders /\ hdata = <<>> /\ hlog = <<>>
    /\ hret = [n |-> 0, done |-> FALSE, err |-> Nil]

\* no RequestFromReader call is in progress
ParserIdle ==
    /\ input = <<>> /\ pos = 0 /\ buf = <<>> /\ readToIndex = 0
    /\ request = NewRequest /\ pc = "idle" /\ err = Nil
    /\ rd = [n |-> 0, err |-> Nil] /\ plain = TRUE

\* no server was started
ServerIdle ==
    /\ run = FALSE /\ listener = "closed" /\ lpc = "exited" /\ closer = "idle"
    /\ conn = <<>> /\ logged = 0 /\ proc = "up"

----------------------------------------------------------------------------
(* The handler's inputs *)

StatusCodes == {StatusOK, 404}

Alphabet == <<"a", "\r", "\n", "0", ":">>
Payload(n) == [i \in 1..n |-> Alphabet[(i % Len(Alphabet)) + 1]]
PayloadLens == {0, 11, 26}
Payloads == {Payload(n) : n \in PayloadLens}

HeaderInputs ==
    { NewHeaders,
      [k \in {TransferEncoding} |-> Chunked],
      [k \in {ContentLength} |-> <<"9", "9">>] }

TrailerInputs ==
    { NewHeaders,
      [k \in {XSum} |-> <<"2">>],
      [k \in {XSum, XB} |-> IF k = XSum THEN <<"2">> ELSE <<"1">>] }

SinkFuel == {-1} \cup (0..MaxSinkWrites)

----------------------------------------------------------------------------
(* The writer under an arbitrary handler: any method, any time *)

InitW ==
    /\ \E left \in SinkFuel : w = NewWriter([out |-> <<>>, left |-> left])
    /\ call = "NewWriter"
    /\ ret = Nil
    /\ payloads = <<>>
    /\ nFlush = 0
    /\ ParserIdle
    /\ HeadersIdle
    /\ ServerIdle

Called(op, r) ==
    /\ UNCHANGED pvars
    /\ UNCHANGED hvars
    /\ UNCHANGED svars
    /\ w' = r.w
    /\ call' = op
    /\ ret' = r.err

DoWriteStatusLine ==
    /\ \E code \in StatusCodes : Called("WriteStatusLine", WriteStatusLine(w, code))
    /\ UNCHANGED <<payloads, nFlush>>

DoWriteHeaders ==
    /\ \E h \in HeaderInputs : Called("WriteHeaders", WriteHeaders(w, h))
    /\ UNCHANGED <<payloads, nFlush>>

DoWriteBody ==
    /\ \E p \in Payloads : Called("WriteBody", WriteBody(w, p))
    /\ UNCHANGED <<payloads, nFlush>>

DoWriteChunkedBody ==
    /\ \E p \in Payloads :
         LET r == WriteChunkedBody(w, p) IN
         /\ r.err = Nil => Len(payloads) < MaxChunks
         /\ Called("WriteChunkedBody", r)
         /\ payloads' = IF r.err = Nil THEN Append(payloads, p) ELSE payloads
    /\ UNCHANGED nFlush

DoWriteChunkedBodyDone ==
    /\ Called("WriteChunkedBodyDone", WriteChunkedBodyDone(w))
    /\ UNCHANGED <<payloads, nFlush>>

DoWriteTrailers ==
    /\ \E h \in TrailerInputs : \E ord \in Orders(DOMAIN h) :
         Called("WriteTrailers", WriteTrailers(w, h, ord))
    /\ UNCHANGED <<payloads, nFlush>>

DoFlush ==
    /\ nFlush < MaxFlush
    /\ \E ord \in Orders(DOMAIN FlushPrepared(w).headers) :
         Called("Flush", Flush(w, ord))
    /\ nFlush' = nFlush + 1
    /\ UNCHANGED payloads

NextW ==
    \/ DoWriteStatusLine
    \/ DoWriteHeaders
    \/ DoWriteBody
    \/ DoWriteChunkedBody
    \/ DoWriteChunkedBodyDone
    \/ DoWriteTrailers
    \/ DoFlush

SpecW == InitW /\ [][NextW]_vars

----------------------------------------------------------------------------
(* The streams RequestFromReader is run on *)

SP == <<" ">>
HTTP11 == HTTP \o <<"/">> \o V11
Host == <<"H", "o", "s", "t">>
host == <<"h", "o", "s", "t">>

FieldLine(name, value) == name \o ColonSp \o value \o CRLF

\* request-line CRLF *( field-line CRLF ) CRLF body
RequestBytes(line, fields, body) ==
    line \o CRLF \o Flatten(fields) \o CRLF \o body

RequestLineBytes(method, target, version) ==
    method \o SP \o target \o SP \o version

\* well-formed requests: the body has the length content-length states, and
\* there is none without content-length
ValidInputs ==
    { RequestBytes(RequestLineBytes(GET, <<"/">>, HTTP11), <<>>, <<>>),
      RequestBytes(RequestLineBytes(PUT, <<"/", "a">>, HTTP11),
                   <<FieldLine(Host, <<"x">>), FieldLine(host, <<"y">>)>>, <<>>),
      RequestBytes(RequestLineBytes(POST, <<"/">>, HTTP11),
                   <<FieldLine(ContentLength, <<"2">>)>>, CRLF),
      RequestBytes(RequestLineBytes(PATCH, <<"/">>, HTTP11),
                   <<FieldLine(ContentLength, <<"3">>)>>, <<"a", "b", "c">>),
      RequestBytes(RequestLineBytes(DELETE, <<"/">>, HTTP11),
                   <<FieldLine(ContentLength, <<"0">>)>>, <<>>) }

LineMethods == {GET, PUT, <<"H", "E", "A", "D">>, <<"g", "e", "t">>, <<>>}
LineTargets == {<<"/">>, <<"/", "a", " ", "b">>, <<"x">>, <<>>}
LineVersions ==
    {HTTP11, HTTP \o <<"/", "1", ".", "0">>, HTTP11 \o <<"/">>,
     <<"h", "t", "t", "p">> \o <<"/">> \o V11, V11, HTTP11 \o SP}

\* requests without fields and body, over every combination of the parts of
\* the request line, and one line of two parts
LineInputs ==
    { RequestBytes(RequestLineBytes(m, t, v), <<>>, <<>>) :
          m \in LineMethods, t \in LineTargets, v \in LineVersions }
        \cup { RequestBytes(GET \o SP \o <<"/">>, <<>>, <<>>) }

\* streams that end early or carry a bad field
BrokenInputs ==
    { RequestLineBytes(GET, <<"/">>, HTTP11) \o CRLF,
      RequestBytes(RequestLineBytes(POST, <<"/">>, HTTP11),
                   <<FieldLine(ContentLength, <<"3">>)>>, <<"a", "b">>),
      RequestBytes(RequestLineBytes(POST, <<"/">>, HTTP11),
                   <<FieldLine(ContentLength, <<"-", "1">>)>>, <<"a">>),
      RequestBytes(RequestLineBytes(GET, <<"/">>, HTTP11),
                   <<FieldLine(Host \o SP, <<"x">>)>>, <<>>) }

\* requests with one content-length field: its value cl, the length n it
\* declares (-1: cl is no non-negative decimal integer), and the bytes that
\* follow the header section
LengthCases ==
    { [cl |-> <<"3">>, n |-> 3, body |-> <<"a", "b", "c">>],
      [cl |-> <<"3">>, n |-> 3, body |-> <<"a", "b", "c", "d", "e">>],
      [cl |-> <<"3">>, n |-> 3, body |-> <<"a", "b">>],
      [cl |-> <<"2">>, n |-> 2, body |-> CRLF \o <<"x">>],
      [cl |-> <<"1">>, n |-> 1, body |-> <<"a">> \o CRLF \o CRLF],
      [cl |-> <<"0">>, n |-> 0, body |-> <<>>],
      [cl |-> <<"0">>, n |-> 0, body |-> <<"x">>],
      [cl |-> <<"a", "b", "c">>, n |-> -1, body |-> <<>>],
      [cl |-> <<"a", "b", "c">>, n |-> -1, body |-> <<"a">>],
      [cl |-> <<"1", "x">>, n |-> -1, body |-> <<"a">>],
      [cl |-> <<"-", "1">>, n |-> -1, body |-> <<>>],
      [cl |-> <<"-", "1">>, n |-> -1, body |-> <<"a">>] }

LengthBytes(c) ==
    RequestBytes(RequestLineBytes(POST, <<"/">>, HTTP11),
                 <<FieldLine(ContentLength, c.cl)>>, c.body)

LengthInputs == {LengthBytes(c) : c \in LengthCases}

\* requests without content-length: the fields, and the bytes that follow
\* the header section
NoLengthCases ==
    { [fields |-> <<>>, rest |-> <<>>],
      [fields |-> <<>>, rest |-> <<"x", "y">>],
      [fields |-> <<FieldLine(Host, <<"x">>)>>, rest |-> <<>>],
      [fields |-> <<FieldLine(Host, <<"x">>)>>, rest |-> CRLF \o CRLF \o <<"x">>] }

NoLengthBytes(c) ==
    RequestBytes(RequestLineBytes(GET, <<"/">>, HTTP11), c.fields, c.rest)

NoLengthInputs == {NoLengthBytes(c) : c \in NoLengthCases}

\* a request of 3 body bytes (17 bytes of request line, 19 of field line,
\* the empty line, the body), cut short: nothing, inside the request line,
\* before and after its CRLF, inside the field line, around its CRLF, inside
\* and after the empty line, inside the body
CutRequest == LengthBytes([cl |-> <<"3">>, n |-> 3, body |-> <<"a", "b", "c">>])
CutLengths == {0, 5, 16, 17, 25, 35, 36, 37, 38, 39, 40}
CutInputs == {SubSeq(CutRequest, 1, k) : k \in CutLengths}

Inputs ==
    ValidInputs \cup LineInputs \cup BrokenInputs
        \cup LengthInputs \cup NoLengthInputs \cup CutInputs

----------------------------------------------------------------------------
(* RequestFromReader over a reader that delivers input as it likes *)

WriterIdle ==
    /\ w = NewWriter([out |-> <<>>, left |-> -1])
    /\ call = "NewWriter" /\ ret = Nil /\ payloads = <<>> /\ nFlush = 0

InitP ==
    /\ WriterIdle
    /\ HeadersIdle
    /\ ServerIdle
    /\ input \in Inputs
    /\ pos = 0
    /\ buf = Zeros(bufferSize)
    /\ readToIndex = 0
    /\ request = NewRequest
    /\ pc = "loop"
    /\ err = Nil
    /\ rd = [n |-> 0, err |-> Nil]
    /\ plain = TRUE

Remaining == Len(input) - pos
Free == Len(Grown(buf, readToIndex)) - readToIndex

\* one iteration of the loop, Read returning (chunk, rerr)
LoopIteration(chunk, rerr, isPlain) ==
    LET R == Iterate([buf |-> buf, readToIndex |-> readToIndex,
                      request |-> request], chunk, rerr)
    IN /\ pc = "loop"
       /\ buf' = R.buf
       /\ readToIndex' = R.readToIndex
       /\ request' = R.request
       /\ pc' = R.pc
       /\ err' = R.err
       /\ pos' = pos + Len(chunk)
       /\ rd' = [n |-> Len(chunk), err |-> rerr]
       /\ plain' = (plain /\ isPlain)
       /\ UNCHANGED input
       /\ UNCHANGED wvars
       /\ UNCHANGED hvars
       /\ UNCHANGED svars

\* Read returns some bytes and nil
ReadData ==
    \E n \in 1..Min(Free, Remaining) :
        LoopIteration(Slice(input, pos, pos + n), Nil, TRUE)

\* Read returns 0, io.EOF at the end of the stream
ReadEOF == Remaining = 0 /\ LoopIteration(<<>>, EOF, TRUE)

\* Read returns the last bytes together with io.EOF
ReadDataEOF ==
    /\ Remaining >= 1 /\ Remaining <= Free
    /\ LoopIteration(From(input, pos), EOF, FALSE)

\* Read returns 0, nil
ReadNothing == LoopIteration(<<>>, Nil, FALSE)

\* Read fails
ReadFails == LoopIteration(<<>>, ErrRead, FALSE)

NextP == ReadData \/ ReadEOF \/ ReadDataEOF \/ ReadNothing \/ ReadFails

SpecP == InitP /\ [][NextP]_vars

----------------------------------------------------------------------------
(* Headers.Parse called on its own, as the tests of package headers do *)

HOST == <<"H", "O", "S", "T">>
Tab == <<"\t">>
Colon == <<":">>

\* a field line K ":" pre V post CRLF and the bytes after it; lname is K in
\* lower case, lineEnd the offset of the CRLF
FieldCase(name, lname, pre, value, post, rest) ==
    [kind |-> "field", lname |-> lname, name |-> name, value |-> value,
     lineEnd |-> Len(name) + 1 + Len(pre) + Len(value) + Len(post),
     bytes |-> name \o Colon \o pre \o value \o post \o CRLF \o rest]

FieldCases ==
    { FieldCase(Host, host, SP, <<"x">>, <<>>, <<>>),
      FieldCase(HOST, host, SP \o SP, <<"y">>, SP \o Tab, <<>>),
      FieldCase(host, host, <<>>, <<"a", ":", "b">>, <<>>, CRLF),
      FieldCase(XSum, XSum, Tab, <<"1", " ", "2">>, <<>>, Host \o Colon),
      FieldCase(XB, XB, SP, <<>>, <<>>, <<>>) }

\* data that begins with CRLF
EndCases ==
    { [kind |-> "end", bytes |-> CRLF],
      [kind |-> "end", bytes |-> CRLF \o <<"b", "o", "d", "y">>],
      [kind |-> "end", bytes |-> CRLF \o CRLF] }

\* data without CRLF
PartialCases ==
    { [kind |-> "partial", bytes |-> Host \o Colon \o SP \o <<"x">>],
      [kind |-> "partial", bytes |-> Host \o SP \o Colon \o SP \o <<"x">>],
      [kind |-> "partial", bytes |-> Host],
      [kind |-> "partial", bytes |-> Colon \o <<"x", "\r">>],
      [kind |-> "partial", bytes |-> <<"\n", "\r">>] }

\* data whose first line is no field line: without colon, the colon first,
\* a space before the colon, a byte in the name that is no token character
BadCases ==
    { [kind |-> "bad", why |-> "no colon", bytes |-> <<"a", "b">> \o CRLF],
      [kind |-> "bad", why |-> "no colon",
       bytes |-> <<"a", "b">> \o CRLF \o Host \o Colon \o <<"x">> \o CRLF],
      [kind |-> "bad", why |-> "no name", bytes |-> Colon \o SP \o <<"v">> \o CRLF],
      [kind |-> "bad", why |-> "space", bytes |-> Host \o SP \o Colon \o SP \o <<"x">> \o CRLF],
      [kind |-> "bad", why |-> "name", bytes |-> <<"H", "@", "s", "t">> \o Colon \o <<"x">> \o CRLF],
      [kind |-> "bad", why |-> "name", bytes |-> <<"H", " ", "t">> \o Colon \o <<"x">> \o CRLF],
      [kind |-> "bad", why |-> "name", bytes |-> Tab \o Host \o Colon \o <<"x">> \o CRLF] }

EmptyCase == [kind |-> "empty", bytes |-> <<>>]

ParseCases == FieldCases \cup EndCases \cup PartialCases \cup BadCases \cup {EmptyCase}

InitH ==
    /\ WriterIdle
    /\ ParserIdle
    /\ HeadersIdle
    /\ ServerIdle

\* n, done, err := hdrs.Parse(c.bytes)
DoParse ==
    \E c \in ParseCases :
        LET p == Parse(hdrs, c.bytes) IN
        /\ Len(hlog) < MaxParse
        /\ hdrs' = p.h
        /\ hdata' = c.bytes
        /\ hret' = [n |-> p.n, done |-> p.done, err |-> p.err]
        /\ hlog' = Append(hlog, c)
        /\ UNCHANGED wvars
        /\ UNCHANGED pvars
        /\ UNCHANGED svars

NextH == DoParse

SpecH == InitH /\ [][NextH]_vars

----------------------------------------------------------------------------
(* cmd/httpserver: Serve, Server.Close, Server.listen, Server.handle *)

\* the connections that clients open while the model runs
MaxConns == 2
\* the Accept calls that fail while the listener is open
MaxAcceptErrors == 1

Conns == 1..MaxConns

\* headers.Headers.Set
Set(h, name, value) == MapSet(h, ToLower(name), value)

ContentType == <<"C", "o", "n", "t", "e", "n", "t", "-", "T", "y", "p", "e">>
TextHtml ==
    <<"t", "e", "x", "t", "/", "h", "t", "m", "l", ";", " ", "c", "h",
      "a", "r", "s", "e", "t", "=", "u", "t", "f", "-", "8">>
InvalidRequestFormat ==
    <<"I", "n", "v", "a", "l", "i", "d", " ", "r", "e", "q", "u", "e",
      "s", "t", " ", "f", "o", "r", "m", "a", "t", "\n">>
OkBody == <<"o", "k", "\n">>

extractPathFromRawRequest(rawRequest) ==
    LET of(parts) == IF Len(parts) < 2 THEN <<>> ELSE parts[2]
        first(lines) == IF Len(lines) = 0 THEN <<>> ELSE of(Split(lines[1], " "))
    IN first(Split(rawRequest, "\n"))

\* &request.Request{RequestLine: {path, "GET", "1.1"}, Headers: make(...)}
MinimalRequestNoMethod(path) ==
    [NewRequest EXCEPT !.RequestLine.RequestTarget = path]

MinimalRequest(path) ==
    [NewRequest EXCEPT !.RequestLine = [Method |-> GET, RequestTarget |-> path,
                                        HttpVersion |-> V11]]

\* RequestFromReader on the tee of a connection whose client sends B and then
\* closes its side (end = EOF) or stays silent, so that the Read that waits
\* for it fails at the read deadline (end = ErrRead).  The bytes arrive one
\* per Read; read is the number of them the tee has copied to requestData.
RECURSIVE ReadConn(_, _, _, _)
ReadConn(L, B, i, end) ==
    IF L.pc # "loop" THEN L @@ [read |-> i]
    ELSE IF i < Len(B) THEN ReadConn(Iterate(L, <<B[i + 1]>>, Nil), B, i + 1, end)
    ELSE ReadConn(Iterate(L, <<>>, end), B, i, end)

\* what a handler does with the writer it is given: nothing, or a response
\* with a body
HandlerCalls == {"silent", "reply"}

Handle(wr, h) ==
    IF h = "silent" THEN wr
    ELSE WriteBody(WriteHeaders(WriteStatusLine(wr, StatusOK).w, NewHeaders).w,
                   OkBody).w

BadRequestWriterNoBody(wr) ==
    WriteHeaders(WriteStatusLine(wr, StatusBadRequest).w,
                 Set(NewHeaders, ContentType, TextHtml)).w

\* the writer of the canned response, before Flush
BadRequestWriter(wr) ==
    WriteBody(WriteHeaders(WriteStatusLine(wr, StatusBadRequest).w,
                           Set(NewHeaders, ContentType, TextHtml)).w,
              InvalidRequestFormat).w

\* what clients do on a connection: the bytes sent, and how the stream ends
Clients ==
    { [bytes |-> RequestBytes(RequestLineBytes(GET, <<"/">>, HTTP11), <<>>, <<>>),
       end |-> EOF],
      [bytes |-> GET \o SP \o <<"/", "a">> \o SP \o <<"H", "T">>, end |-> ErrRead],
      [bytes |-> <<>>, end |-> EOF],
      [bytes |-> RequestBytes(GET \o SP \o SP \o <<"/">> \o SP \o HTTP11, <<>>, <<>>),
       end |-> EOF],
      [bytes |-> LengthBytes([cl |-> <<"-", "1">>, n |-> -1, body |-> <<"a">>]),
       end |-> EOF],
      [bytes |-> RequestBytes(RequestLineBytes(GET, <<"x">>, HTTP11), <<>>, <<>>),
       end |-> EOF] }

\* what RequestFromReader returns on the connection of each client
Read ==
    [cl \in Clients |->
        ReadConn([buf |-> Zeros(bufferSize), readToIndex |-> 0,
                  request |-> NewRequest, pc |-> "loop", err |-> Nil],
                 cl.bytes, 0, cl.end)]

\* the connection as the io.Writer of a response: it takes every write, or
\* it is broken after the first
ConnFuel == {-1, 1}

\* the writers handle calls Flush on (over a connection that takes left
\* more writes), and what Flush returns for each and for each order of the
\* header map
FlushCalls ==
    UNION { { [w |-> [v EXCEPT !.writer.left = left], ord |-> ord] :
                ord \in Orders(DOMAIN FlushPrepared(v).headers) } :
            v \in { Handle(NewWriter([out |-> <<>>, left |-> -1]), h) :
                       h \in HandlerCalls }
                     \cup {BadRequestWriter(NewWriter([out |-> <<>>, left |-> -1]))},
            left \in ConnFuel }
Flushed == [x \in FlushCalls |-> Flush(x.w, x.ord)]

\* a connection nobody opened yet
NoConn ==
    [pc |-> "none", open |-> FALSE, client |-> [bytes |-> <<>>, end |-> EOF],
     captured |-> <<>>, perr |-> Nil, invoked |-> FALSE, req |-> NewRequest,
     w |-> NewWriter([out |-> <<>>, left |-> -1]), ferr |-> Nil]

\* Server.handle from RequestFromReader's return to the handler's call or to
\* the canned response: k is the connection, cl its client, L what
\* RequestFromReader returned
AfterParse(k, cl, L) ==
    LET k1 == [k EXCEPT !.client = cl, !.captured = SubSeq(cl.bytes, 1, L.read)]
        failed(path) ==
            IF path # <<>>
            THEN [k1 EXCEPT !.pc = "handler", !.perr = L.err, !.invoked = TRUE,
                            !.req = MinimalRequest(path)]
            ELSE [k1 EXCEPT !.pc = "flush", !.perr = L.err,
                            !.w = BadRequestWriter(k1.w)]
    IN IF L.pc = "panicked" THEN [k1 EXCEPT !.pc = "panicking", !.perr = Panic]
       ELSE IF L.err # Nil THEN failed(extractPathFromRawRequest(k1.captured))
       ELSE [k1 EXCEPT !.pc = "handler", !.invoked = TRUE, !.req = L.request]

\* Serve has returned: the listener is open and listen runs
InitS ==
    /\ WriterIdle
    /\ ParserIdle
    /\ HeadersIdle
    /\ run = TRUE
    /\ listener = "open"
    /\ lpc = "top"
    /\ closer = "idle"
    /\ conn = [c \in Conns |-> NoConn]
    /\ logged = 0
    /\ proc = "up"

Others == /\ UNCHANGED wvars /\ UNCHANGED pvars /\ UNCHANGED hvars

\* Close: s.State.Store(false)
CloseStore ==
    /\ proc = "up" /\ closer = "idle"
    /\ run' = FALSE
    /\ closer' = "stored"
    /\ UNCHANGED <<listener, lpc, conn, logged, proc>>
    /\ Others

\* Close: s.Listener.Close()
CloseListener ==
    /\ proc = "up" /\ closer = "stored"
    /\ listener' = "closed"
    /\ closer' = "done"
    /\ UNCHANGED <<run, lpc, conn, logged, proc>>
    /\ Others

\* listen: for s.State.Load()
ListenCheck ==
    /\ proc = "up" /\ lpc = "top"
    /\ lpc' = IF run THEN "accept" ELSE "exited"
    /\ UNCHANGED <<run, listener, closer, conn, logged, proc>>
    /\ Others

AcceptServesInline(c) ==
    /\ proc = "up" /\ lpc = "accept" /\ listener = "open"
    /\ conn[c].pc = "none"
    /\ \A d \in Conns : d < c => conn[d].pc = "closed"
    /\ conn' = [conn EXCEPT ![c] = [@ EXCEPT !.pc = "reading", !.open = TRUE]]
    /\ lpc' = "top"
    /\ UNCHANGED <<run, listener, closer, logged, proc>>
    /\ Others

\* listen: Accept returns the connection c, and go s.handle(c) starts its
\* task, which runs up to its first Read
Accept(c) ==
    /\ proc = "up" /\ lpc = "accept" /\ listener = "open"
    /\ conn[c].pc = "none"
    /\ \A d \in Conns : d < c => conn[d].pc # "none"
    /\ conn' = [conn EXCEPT ![c] = [@ EXCEPT !.pc = "reading", !.open = TRUE]]
    /\ lpc' = "top"
    /\ UNCHANGED <<run, listener, closer, logged, proc>>
    /\ Others

\* listen: Accept returns an error: always once the listener is closed, and
\* now and then before
AcceptFails ==
    /\ proc = "up" /\ lpc = "accept"
    /\ listener = "closed" \/ logged < MaxAcceptErrors
    /\ lpc' = "failed"
    /\ UNCHANGED <<run, listener, closer, conn, logged, proc>>
    /\ Others

AcceptFailedAlwaysLogs ==
    /\ proc = "up" /\ lpc = "failed"
    /\ logged' = logged + 1
    /\ lpc' = "top"
    /\ UNCHANGED <<run, listener, closer, conn, proc>>
    /\ Others

\* listen, err != nil: return if !s.State.Load(), else log and continue
AcceptFailed ==
    /\ proc = "up" /\ lpc = "failed"
    /\ IF ~run THEN lpc' = "exited" /\ logged' = logged
       ELSE lpc' = "top" /\ logged' = logged + 1
    /\ UNCHANGED <<run, listener, closer, conn, proc>>
    /\ Others

\* a step of the task of connection c that leaves it as the record k
Task(c, k) ==
    /\ conn' = [conn EXCEPT ![c] = k]
    /\ UNCHANGED <<run, listener, lpc, closer, logged, proc>>
    /\ Others

\* handle: RequestFromReader returns
Parsed(c) ==
    /\ proc = "up" /\ conn[c].pc = "reading"
    /\ \E cl \in Clients : Task(c, AfterParse(conn[c], cl, Read[cl]))

\* handle: s.Handler returns
HandlerReturns(c) ==
    /\ proc = "up" /\ conn[c].pc = "handler"
    /\ \E h \in HandlerCalls :
         Task(c, [conn[c] EXCEPT !.pc = "flush", !.w = Handle(@, h)])

\* handle: s.Handler panics
HandlerPanics(c) ==
    /\ proc = "up" /\ conn[c].pc = "handler"
    /\ Task(c, [conn[c] EXCEPT !.pc = "panicking"])

\* handle: respWriter.Flush()
FlushResponse(c) ==
    /\ proc = "up" /\ conn[c].pc = "flush"
    /\ \E x \in FlushCalls :
         /\ x.w = [conn[c].w EXCEPT !.writer.left = x.w.writer.left]
         /\ Task(c, [conn[c] EXCEPT !.pc = "return", !.w = Flushed[x].w,
                                    !.ferr = Flushed[x].err])

ReturnLeaks(c) ==
    /\ proc = "up" /\ conn[c].pc = "return"
    /\ Task(c, [NoConn EXCEPT !.pc = "closed", !.open = TRUE])

\* handle returns: the deferred conn.Close(); the task and what it held
\* (requestData, req, respWriter) are gone
Return(c) ==
    /\ proc = "up" /\ conn[c].pc = "return"
    /\ Task(c, [NoConn EXCEPT !.pc = "closed"])

\* a panic in the task of c: the deferred conn.Close() runs, nothing
\* recovers, the runtime ends the process, and with it listen and every
\* other task ("killed"); the system closes what the process held open
PanicExits(c) ==
    /\ proc = "up" /\ conn[c].pc = "panicking"
    /\ conn' = [d \in Conns |->
                  IF d = c THEN [NoConn EXCEPT !.pc = "aborted",
                                              !.invoked = conn[c].invoked]
                  ELSE IF conn[d].pc \in {"none", "closed"} THEN conn[d]
                  ELSE [NoConn EXCEPT !.pc = "killed"]]
    /\ proc' = "exited"
    /\ UNCHANGED <<run, listener, lpc, closer, logged>>
    /\ Others

NextS ==
    \/ CloseStore
    \/ CloseListener
    \/ ListenCheck
    \/ AcceptFails
    \/ AcceptFailed
    \/ \E c \in Conns : Accept(c)
    \/ \E c \in Conns : Parsed(c)
    \/ \E c \in Conns : HandlerReturns(c)
    \/ \E c \in Conns : HandlerPanics(c)
    \/ \E c \in Conns : FlushResponse(c)
    \/ \E c \in Conns : Return(c)
    \/ \E c \in Conns : PanicExits(c)

SpecS == InitS /\ [][NextS]_vars

\* Close, once called, completes; listen runs while it is not blocked in
\* Accept; a Read ends at the deadline at the latest; Flush and the return
\* of handle take their steps.  Nothing makes a handler return.
FairS ==
    /\ WF_vars(CloseListener)
    /\ WF_vars(ListenCheck)
    /\ WF_vars(AcceptFails /\ listener = "closed")
    /\ WF_vars(AcceptFailed)
    /\ \A c \in Conns :
         /\ WF_vars(Parsed(c))
         /\ WF_vars(FlushResponse(c))
         /\ WF_vars(Return(c))
         /\ WF_vars(PanicExits(c))

SpecSFair == SpecS /\ FairS

----------------------------------------------------------------------------
(* What the sink received *)

RECURSIVE BytesOf(_)
BytesOf(out) == IF out = <<>> THEN <<>> ELSE Head(out).bytes \o BytesOf(Tail(out))

SinkBytes == BytesOf(w.writer.out)
KindBytes(K) == BytesOf(SelectSeq(w.writer.out, LAMBDA x : x.kind \in K))

ChunkKinds == {"chunk-size", "chunk-data", "chunk-end", "last-chunk"}
BodyKinds == ChunkKinds \cup {"body"}

FieldBytes(m, ord) ==
    Flatten([i \in 1..Len(ord) |-> ord[i] \o ColonSp \o m[ord[i]] \o CRLF])

Frames(ps) ==
    Flatten([i \in 1..Len(ps) |->
        IF ps[i] = <<>> THEN <<>>
        ELSE FmtHex(Len(ps[i])) \o CRLF \o ps[i] \o CRLF])

(* A decoder of the HTTP/1.1 chunked transfer coding (RFC 7230, 4.1),      *)
(* without chunk extensions and trailers: chunk-size CRLF chunk-data CRLF, *)
(* repeated, then "0" CRLF CRLF.                                            *)
HexChars == <<"0", "1", "2", "3", "4", "5", "6", "7", "8", "9",
              "a", "b", "c", "d", "e", "f", "A", "B", "C", "D", "E", "F">>
LowerHexChars == {HexChars[i] : i \in 1..16}
HexDigitValue(c) ==
    LET i == CHOOSE k \in 1..Len(HexChars) : HexChars[k] = c
    IN IF i <= 16 THEN i - 1 ELSE i - 7

RECURSIVE HexValue(_)
HexValue(ds) ==
    IF ds = <<>> THEN 0
    ELSE 16 * HexValue(SubSeq(ds, 1, Len(ds) - 1)) + HexDigitValue(ds[Len(ds)])

FirstCRLF(bs) ==
    LET I == {i \in 1..(Len(bs) - 1) : bs[i] = "\r" /\ bs[i + 1] = "\n"}
    IN IF I = {} THEN 0 ELSE CHOOSE i \in I : \A j \in I : i <= j

DecodeFailed == [ok |-> FALSE, data |-> <<>>]

RECURSIVE DecodeChunked(_)
DecodeChunked(bs) ==
    LET e == FirstCRLF(bs) IN
    IF e <= 1 \/ \E i \in 1..(e - 1) : bs[i] \notin {HexChars[k] : k \in 1..Len(HexChars)}
    THEN DecodeFailed
    ELSE
      LET n == HexValue(SubSeq(bs, 1, e - 1))
          rest == SubSeq(bs, e + 2, Len(bs))
      IN
      IF n = 0 THEN [ok |-> rest = CRLF, data |-> <<>>]
      ELSE IF Len(rest) < n + 2 \/ SubSeq(rest, n + 1, n + 2) # CRLF
      THEN DecodeFailed
      ELSE LET r == DecodeChunked(SubSeq(rest, n + 3, Len(rest)))
           IN [ok |-> r.ok, data |-> SubSeq(rest, 1, n) \o r.data]

----------------------------------------------------------------------------
(* The state machine of the writer as the specification states it *)

WriteOps == {"WriteStatusLine", "WriteHeaders", "WriteBody", "WriteChunkedBody",
             "WriteChunkedBodyDone", "WriteTrailers"}

ValidIn(op) ==
    CASE op = "WriteStatusLine" -> {stateInitialized}
      [] op = "WriteHeaders" -> {stateStatusWritten}
      [] op = "WriteBody" -> {stateHeadersWritten}
      [] op = "WriteChunkedBody" -> {stateHeadersWritten, stateChunkedBodyStarted}
      [] op = "WriteChunkedBodyDone" -> {stateChunkedBodyStarted}
      [] op = "WriteTrailers" -> {stateChunkedBodyDone}

MovesTo(op) ==
    CASE op = "WriteStatusLine" -> stateStatusWritten
      [] op = "WriteHeaders" -> stateHeadersWritten
      [] op = "WriteBody" -> stateBodyWritten
      [] op = "WriteChunkedBody" -> stateChunkedBodyStarted
      [] op = "WriteChunkedBodyDone" -> stateChunkedBodyDone
      [] op = "WriteTrailers" -> stateTrailersWritten

\* a chunked response written in order and flushed once, at the end
ChunkedResponseFlushed ==
    /\ call = "Flush" /\ ret = Nil /\ nFlush = 1
    /\ w.state \in {stateChunkedBodyDone, stateTrailersWritten}
    /\ TransferEncoding \in DOMAIN w.headers
    /\ w.headers[TransferEncoding] = Chunked
    /\ Len(payloads) >= 1

\* a buffered-body response flushed once, successfully
BufferedResponseFlushed ==
    /\ call = "Flush" /\ ret = Nil /\ nFlush = 1
    /\ w.state = stateBodyWritten

----------------------------------------------------------------------------
(* Claims *)

(* C2: after write_status, write_headers(H with transfer-encoding:        *)
(* chunked), one or more write_chunked_body, write_chunked_body_done,     *)
(* optionally write_trailers, and flush, the sink holds the status line,  *)
(* every header of H (in some order), a blank line, each chunk as         *)
(* hex-length CRLF payload CRLF, "0" CRLF, the trailer fields and a final *)
(* CRLF.                                                                   *)
C2_ChunkedWireBytes ==
    ChunkedResponseFlushed =>
        \E ord \in Orders(DOMAIN w.headers) :
            SinkBytes = StatusLine(w.statusCode) \o FieldBytes(w.headers, ord)
                            \o CRLF \o Frames(payloads) \o <<"0">> \o CRLF
                            \o KindBytes({"trailer"}) \o CRLF

(* C3: a write_status, write_headers, write_body, write_chunked_body,     *)
(* write_chunked_body_done or write_trailers call made in a state in      *)
(* which it is not valid returns InvalidWriteState, writes nothing to the *)
(* sink and leaves every field of the writer unchanged.                   *)
C3_OutOfOrderRejected ==
    [][\A op \in WriteOps :
          (call' = op /\ w.state \notin ValidIn(op)) =>
              (ret' = ErrInvalidWriteState /\ w' = w)]_vars

C3_Witness ==
    /\ call = "WriteBody" /\ ret = ErrInvalidWriteState
    /\ w.state = stateChunkedBodyStarted
    /\ Len(w.writer.out) > 0

(* C4: the sink never receives header bytes after body or chunk bytes,    *)
(* and the status line is written at most once and before any other byte. *)
C4_HeadBeforeBody ==
    LET out == w.writer.out IN
    /\ \A i, j \in 1..Len(out) :
          (i < j /\ out[i].kind \in BodyKinds) => out[j].kind # "header"
    /\ \A i \in 1..Len(out) : out[i].kind = "status" => i = 1

(* C5: for a buffered-body response flushed successfully, the emitted     *)
(* content-length header equals the number of bytes appended by           *)
(* write_body, whatever headers the caller passed.                        *)
C5_ContentLengthIsBodyLength ==
    BufferedResponseFlushed =>
        \E i \in 1..Len(w.writer.out) :
            /\ w.writer.out[i].kind = "header"
            /\ w.writer.out[i].bytes =
                   ContentLength \o ColonSp \o FmtDec(Len(w.body)) \o CRLF

(* C6: after write_status, write_headers(H) and write_body(b), flush      *)
(* emits the status line, each header, a blank line and then exactly the  *)
(* bytes b, for any H.                                                     *)
C6_BodyVerbatim ==
    BufferedResponseFlushed =>
        \E ord \in Orders(DOMAIN w.headers) :
            SinkBytes = StatusLine(w.statusCode) \o FieldBytes(w.headers, ord)
                            \o CRLF \o w.body

(* C7: once write_chunked_body_done has succeeded, the chunk bytes on the *)
(* sink followed by the terminating blank line decode, as HTTP/1.1        *)
(* chunked encoding, to the concatenation of the payloads in call order;  *)
(* every chunk size is written in lower-case hexadecimal.                 *)
C7_ChunkedFraming ==
    w.state \in {stateChunkedBodyDone, stateTrailersWritten} =>
        /\ DecodeChunked(KindBytes(ChunkKinds) \o CRLF)
               = [ok |-> TRUE, data |-> Flatten(payloads)]
        /\ \A i \in 1..Len(w.writer.out) :
              w.writer.out[i].kind = "chunk-size" =>
                  \A k \in 1..(Len(w.writer.out[i].bytes) - 2) :
                      w.writer.out[i].bytes[k] \in LowerHexChars

C7_Witness ==
    /\ w.state = stateChunkedBodyDone
    /\ Len(payloads) = 2
    /\ Len(payloads[1]) = 26
    /\ Len(payloads[2]) = 11

(* C8: each write call is accepted in exactly its listed states (it       *)
(* returns InvalidWriteState in every other state), an accepted call that *)
(* returns nil moves the writer to the listed state, and with a sink that *)
(* does not fail every accepted call returns nil.                         *)
C8_AcceptedTransitions ==
    [][\A op \in WriteOps :
          call' = op =>
              /\ (ret' # ErrInvalidWriteState) <=> (w.state \in ValidIn(op))
              /\ ret' = Nil => w'.state = MovesTo(op)
              /\ ret' # Nil => w'.state \in {w.state, MovesTo(op)}
              /\ (w.state \in ValidIn(op) /\ w.writer.left = -1) => ret' = Nil]_vars

C8_Witness ==
    /\ call = "WriteTrailers" /\ ret = Nil
    /\ w.state = stateTrailersWritten

(* C9: flush on a writer in Init fails with StatusNotSet, writes nothing  *)
(* to the sink and leaves the writer in Init.                             *)
C9_FlushBeforeStatus ==
    [][(call' = "Flush" /\ w.state = stateInitialized) =>
          (ret' = ErrStatusNotSet /\ w' = w)]_vars

C9_Witness ==
    /\ call = "Flush" /\ ret = ErrStatusNotSet
    /\ w.state = stateInitialized

----------------------------------------------------------------------------
(* What RequestFromReader returned *)

\* the Request as a caller sees it (a nil body reads as an empty one), or
\* the failure
Outcome(L) ==
    IF L.pc = "panicked" THEN [err |-> Panic]
    ELSE IF L.err # Nil THEN [err |-> L.err]
    ELSE [err |-> Nil, RequestLine |-> L.request.RequestLine,
          Headers |-> L.request.Headers, Body |-> L.request.Body]

\* RequestFromReader on a reader that delivers B one byte per Read and then
\* 0, io.EOF; i bytes are delivered
RECURSIVE Bytewise(_, _, _)
Bytewise(L, B, i) ==
    IF L.pc # "loop" THEN L
    ELSE IF i < Len(B) THEN Bytewise(Iterate(L, <<B[i + 1]>>, Nil), B, i + 1)
    ELSE Bytewise(Iterate(L, <<>>, EOF), B, i)

RunBytewise(B) ==
    Bytewise([buf |-> Zeros(bufferSize), readToIndex |-> 0, request |-> NewRequest,
              pc |-> "loop", err |-> Nil], B, 0)

Returned == pc \in {"returned", "panicked"}

\* the request line of a stream, and its parts when two spaces divide it
HasRequestLine(B) == \E i \in 1..(Len(B) - 1) : SubSeq(B, i, i + 1) = CRLF
RequestLineOf(B) == Slice(B, 0, Index(B, CRLF))
Spaces(line) == {i \in 1..Len(line) : line[i] = " "}
FirstSpace(line) == CHOOSE i \in Spaces(line) : \A j \in Spaces(line) : i <= j
LastSpace(line) == CHOOSE i \in Spaces(line) : \A j \in Spaces(line) : j <= i
ThreeParts(line) == Cardinality(Spaces(line)) = 2
MethodPart(line) == SubSeq(line, 1, FirstSpace(line) - 1)
TargetPart(line) == SubSeq(line, FirstSpace(line) + 1, LastSpace(line) - 1)
VersionPart(line) == SubSeq(line, LastSpace(line) + 1, Len(line))

AllowedMethods == {GET, POST, PATCH, PUT, DELETE}
MethodOK(line) == MethodPart(line) \in AllowedMethods
TargetOK(line) == TargetPart(line) # <<>> /\ TargetPart(line)[1] = "/"
VersionOK(line) == VersionPart(line) = HTTP11
LineOK(line) == ThreeParts(line) /\ MethodOK(line) /\ TargetOK(line) /\ VersionOK(line)

RequestLineErrors ==
    {ErrRequestLineParts, ErrInvalidMethod, ErrInvalidTarget,
     ErrVersionMalformed, ErrVersionNot11}

(* C1: for a valid request B, whatever the split of B into non-empty reads  *)
(* that fit the free space of the buffer, followed by EOF, RequestFromReader *)
(* returns the same Request (request line, headers, body) as for any other  *)
(* split, here the split into single bytes.                                 *)
C1_ChunkIndependence ==
    (Returned /\ plain /\ input \in ValidInputs)
        => Outcome([pc |-> pc, err |-> err, request |-> request])
               = Outcome(RunBytewise(input))

(* C10: the request line is accepted if and only if it is three parts       *)
(* divided by single spaces, the method one of GET, POST, PATCH, PUT and    *)
(* DELETE, the target non-empty and starting with "/", the version part     *)
(* "HTTP/1.1".  Once accepted, the Request carries that method, that target *)
(* and version "1.1"; any other line makes RequestFromReader fail, for      *)
(* every split of the input, with an error that names a part that is wrong. *)
(* (A stream that ends before the first CRLF holds no request line.)        *)
C10_RequestLineAcceptance ==
    LET line == RequestLineOf(input) IN
    /\ request.state >= StateParsingHeaders
         => /\ LineOK(line)
            /\ request.RequestLine = [Method |-> MethodPart(line),
                                      RequestTarget |-> TargetPart(line),
                                      HttpVersion |-> V11]
    /\ (pc = "returned" /\ plain /\ HasRequestLine(input))
         => IF LineOK(line)
            THEN request.state >= StateParsingHeaders /\ err \notin RequestLineErrors
            ELSE /\ err \in RequestLineErrors
                 /\ request.state < StateParsingHeaders
                 /\ err = ErrRequestLineParts <=> ~ThreeParts(line)
                 /\ err = ErrInvalidMethod => ~MethodOK(line)
                 /\ err = ErrInvalidTarget => ~TargetOK(line)
                 /\ err \in {ErrVersionMalformed, ErrVersionNot11} => ~VersionOK(line)

C10_Witness ==
    /\ pc = "returned" /\ plain /\ err = Nil
    /\ request.RequestLine = [Method |-> PUT, RequestTarget |-> <<"/", "a">>,
                              HttpVersion |-> V11]
    /\ rd.err = EOF

(* C11: for a request whose content-length declares n > 0 and whose source  *)
(* delivers at least n bytes after the header section, RequestFromReader    *)
(* returns a Request whose body is exactly the first n of those bytes, for  *)
(* every split into reads; the bytes beyond the n-th are discarded.         *)
C11_BodyIsDeclaredPrefix ==
    \A c \in LengthCases :
        (Returned /\ plain /\ input = LengthBytes(c)
            /\ c.n > 0 /\ Len(c.body) >= c.n)
          => /\ pc = "returned"
             /\ err = Nil
             /\ request.Body = SubSeq(c.body, 1, c.n)

\* the bytes of CutRequest before its body
CutHeadLen == Len(CutRequest) - 3

(* C12: when the source reports EOF before the parser is Done,              *)
(* RequestFromReader fails: with BodyShorterThanContentLength when the      *)
(* header section is complete, content-length is present and fewer body     *)
(* bytes than declared were delivered; with IncompleteRequest when the      *)
(* request line or the header section is not terminated.                    *)
C12_EOFClassification ==
    /\ \A k \in CutLengths :
         (Returned /\ plain /\ input = SubSeq(CutRequest, 1, k))
           => /\ pc = "returned"
              /\ rd.err = EOF
              /\ err = IF k < CutHeadLen THEN ErrIncomplete ELSE ErrShortBody
    /\ \A c \in LengthCases :
         (Returned /\ plain /\ input = LengthBytes(c)
             /\ c.n > 0 /\ Len(c.body) < c.n)
           => pc = "returned" /\ rd.err = EOF /\ err = ErrShortBody
    /\ (pc = "returned" /\ plain /\ rd.err = EOF
           /\ request.state < StateParsingBody)
         => err = ErrIncomplete

C12_Witness ==
    /\ pc = "returned" /\ plain /\ rd.err = EOF
    /\ input = SubSeq(CutRequest, 1, CutHeadLen + 1)
    /\ err = ErrShortBody
    /\ request.Body = <<"a">>

(* C13: a request without content-length parses successfully with the body *)
(* absent (nil), whether or not bytes follow the header section; such       *)
(* bytes are ignored.                                                        *)
C13_NoLengthNoBody ==
    \A c \in NoLengthCases :
        (Returned /\ plain /\ input = NoLengthBytes(c))
          => /\ pc = "returned"
             /\ err = Nil
             /\ request.state = StateDone
             /\ request.BodyNil /\ request.Body = <<>>

C13_Witness ==
    /\ pc = "returned" /\ plain /\ err = Nil
    /\ input = NoLengthBytes([fields |-> <<FieldLine(Host, <<"x">>)>>,
                              rest |-> CRLF \o CRLF \o <<"x">>])
    /\ request.Headers = [k \in {host} |-> <<"x">>]
    /\ request.BodyNil

(* C14: a request whose content-length value is not a non-negative decimal  *)
(* integer makes RequestFromReader fail with InvalidContentLength, whether  *)
(* or not bytes follow the header section, for every split into reads.      *)
C14_InvalidContentLength ==
    \A c \in LengthCases :
        (Returned /\ plain /\ input = LengthBytes(c) /\ c.n = -1)
          => pc = "returned" /\ err = ErrInvalidContentLength

----------------------------------------------------------------------------
(* What Parse was called with *)

\* a Parse call was made in this step, and the case it was called with
ParseCalled == Len(hlog') = Len(hlog) + 1
ParseCase == hlog'[Len(hlog')]
LastCase == hlog[Len(hlog)]

\* the field cases parsed so far under the lower-case name k
FieldsNamed(k) == SelectSeq(hlog, LAMBDA c : c.kind = "field" /\ c.lname = k)

\* V1, V2, ..., Vn
RECURSIVE JoinValues(_)
JoinValues(cs) ==
    IF Len(cs) = 1 THEN cs[1].value
    ELSE JoinValues(SubSeq(cs, 1, Len(cs) - 1)) \o CommaSp \o cs[Len(cs)].value

FieldNames == {c.lname : c \in FieldCases}

\* letter-case variants of the field names
NameVariants(k) ==
    CASE k = host -> {host, Host, HOST, <<"h", "O", "s", "T">>}
      [] k = XSum -> {XSum, <<"X", "-", "S", "u", "m">>}
      [] k = XB -> {XB, <<"X", "-", "B">>, <<"x", "-", "B">>}

C20_EmptyData ==
    [][(ParseCalled /\ ParseCase.kind = "empty")
         => hret' = [n |-> 0, done |-> FALSE, err |-> ErrInvalidData]]_vars

C20_Witness ==
    /\ Len(hlog) = 1
    /\ LastCase.kind = "empty" /\ hdata = <<>>
    /\ hret.err = ErrInvalidData

----------------------------------------------------------------------------
(* The server *)

\* the task of c is where it can stay for long: in a Read, in the handler
Blocked(c) == conn[c].pc \in {"reading", "handler"}

\* the first line of the bytes B, and whether its second part (what follows
\* the first space, up to the next) is missing or empty
FirstLineOf(B) ==
    LET N == {i \in 1..Len(B) : B[i] = "\n"}
    IN IF N = {} THEN B ELSE SubSeq(B, 1, (CHOOSE i \in N : \A j \in N : i <= j) - 1)
NoTarget(B) ==
    LET line == FirstLineOf(B) IN
    \/ Spaces(line) = {}
    \/ FirstSpace(line) = Len(line)
    \/ line[FirstSpace(line) + 1] = " "

BadRequestLine ==
    <<"H", "T", "T", "P", "/", "1", ".", "1", " ", "4", "0", "0", " ",
      "B", "a", "d", " ", "R", "e", "q", "u", "e", "s", "t", "\r", "\n">>
ContentLength23 == ContentLength \o <<":", " ", "2", "3", "\r", "\n">>

\* the writes the connection took, of the kinds K
WireOf(k, K) == SelectSeq(k.w.writer.out, LAMBDA x : x.kind \in K)

(* C21: every accepted connection is eventually closed: the Read of its     *)
(* task ends (the handler is called or the connection is closed), and from  *)
(* the handler's return on, whether the request was parsed or not, whether  *)
(* Flush fails (status not set, write error) or not, and on a panic, the    *)
(* connection is closed.                                                     *)
C21_EventuallyClosed ==
    \A c \in Conns :
        /\ (conn[c].pc = "reading") ~> (conn[c].pc = "handler" \/ ~conn[c].open)
        /\ (conn[c].pc \in {"flush", "return", "panicking"}) ~> ~conn[c].open

C21_Witness ==
    /\ conn[1].pc = "closed" /\ ~conn[1].open
    /\ conn[2].pc = "return" /\ conn[2].open
    /\ conn[2].invoked /\ conn[2].perr = ErrRead
    /\ conn[2].ferr = ErrStatusNotSet
    /\ conn[2].w.writer.out = <<>>

(* C22: a panic inside the handler of one connection leaves the process up, *)
(* so that listen keeps accepting and the other tasks keep running.         *)
C22_PanicContained ==
    (\E c \in Conns : conn[c].pc = "aborted" /\ conn[c].invoked) => proc = "up"

(* C23: when the Read of a connection fails (deadline exceeded, transport   *)
(* error) before the request is parsed, the handler is not called for that  *)
(* connection.                                                               *)
C23_NoHandlerAfterReadError ==
    \A c \in Conns : conn[c].perr = ErrRead => ~conn[c].invoked

(* C24: when RequestFromReader fails and the captured bytes hold no target, *)
(* the handler is not called and the connection is sent one response, and   *)
(* nothing else: the status line "HTTP/1.1 400 Bad Request", a              *)
(* content-length of 23, and the 23 bytes "Invalid request format\n" as the *)
(* body (all of it when no write to the connection fails).                  *)
C24_CannedBadRequest ==
    \A c \in Conns :
        LET k == conn[c]
            out == k.w.writer.out
        IN (k.perr # Nil /\ NoTarget(k.captured))
             => /\ ~k.invoked
                /\ k.pc \in {"flush", "return"}
                /\ k.pc = "flush" => out = <<>>
                /\ (k.pc = "return" /\ k.ferr = Nil)
                     => /\ Len(out) = 5
                        /\ out[1] = [kind |-> "status", bytes |-> BadRequestLine]
                        /\ {out[2].kind, out[3].kind} = {"header"}
                        /\ ContentLength23 \in {out[2].bytes, out[3].bytes}
                        /\ out[4] = [kind |-> "blank", bytes |-> CRLF]
                        /\ out[5] = [kind |-> "body", bytes |-> InvalidRequestFormat]
                        /\ Len(InvalidRequestFormat) = 23
                /\ (k.pc = "return" /\ k.ferr # Nil)
                     => /\ k.ferr = ErrSink
                        /\ out = <<[kind |-> "status", bytes |-> BadRequestLine]>>

C24_Witness ==
    /\ conn[1].pc = "return" /\ conn[1].ferr = Nil /\ ~conn[1].invoked
    /\ conn[1].perr = ErrRequestLineParts
    /\ conn[1].captured = GET \o SP \o SP \o <<"/">> \o SP \o HTTP11 \o CRLF
    /\ Len(conn[1].w.writer.out) = 5

C26_TasksIndependent ==
    /\ (/\ proc = "up" /\ lpc = "accept" /\ listener = "open"
        /\ \E c \in Conns : Blocked(c)
        /\ \E d \in Conns : conn[d].pc = "none")
         => ENABLED (\E d \in Conns : Accept(d))
    /\ \A c \in Conns :
         proc = "up" =>
           /\ conn[c].pc = "reading" => ENABLED Parsed(c)
           /\ conn[c].pc = "handler" => ENABLED HandlerReturns(c)
           /\ conn[c].pc = "flush" => ENABLED FlushResponse(c)
           /\ conn[c].pc = "return" => ENABLED Return(c)

C26_Witness ==
    /\ proc = "up" /\ closer = "done"
    /\ conn[1].pc = "handler"
    /\ conn[2].pc = "return" /\ conn[2].ferr = Nil /\ conn[2].invoked

----------------------------------------------------------------------------
(* RequestFromReader, read by read *)

\* the bytes of a request up to the end of its header section
HeadLength(c) == Len(LengthBytes(c)) - Len(c.body)
NoLengthHeadLength(c) == Len(NoLengthBytes(c)) - Len(c.rest)

\* a step is an iteration of the loop: the bytes its Read returned, and
\* buf[:readToIndex] as parseAndUpdateState is given it
ReadBytes == SubSeq(input, pos + 1, pos')
ParsedData ==
    SubSeq(Grown(buf, readToIndex), 1, readToIndex) \o ReadBytes

\* the states r.state takes in parseAndUpdateState(r, data), one per
\* parseSingle call, totalBytesParsed bytes of data parsed
RECURSIVE StatesIn(_, _, _)
StatesIn(r, data, totalBytesParsed) ==
    LET parsed(s) ==
            <<s.r.state>> \o
                (IF s.err # Nil \/ s.n = 0 THEN <<>>
                 ELSE StatesIn(s.r, data, totalBytesParsed + s.n))
    IN IF r.state = StateDone THEN <<>>
       ELSE parsed(parseSingle(r, From(data, totalBytesParsed)))

NonDecreasing(s) == \A i \in 1..(Len(s) - 1) : s[i] <= s[i + 1]

(* C27: RequestFromReader issues no Read once the bytes delivered hold a    *)
(* complete request: the header section and, with content-length n > 0, n   *)
(* body bytes; the header section alone without content-length or with      *)
(* content-length 0.                                                         *)
C27_NoReadAhead ==
    [][/\ \A c \in NoLengthCases :
            input = NoLengthBytes(c) => pos < NoLengthHeadLength(c)
       /\ \A c \in LengthCases :
            (input = LengthBytes(c) /\ c.n >= 0 /\ Len(c.body) >= c.n)
              => pos < HeadLength(c) + c.n]_vars

(* C28: the request line and the header section account for exactly the    *)
(* bytes up to the end of the first empty line: once the parser is in       *)
(* ParsingBody or Done, the bytes consumed are those and the body bytes     *)
(* stored, also when the body or what follows the header section starts     *)
(* with CRLF.                                                                *)
C28_HeaderConsumption ==
    (pc \in {"loop", "returned"} /\ err = Nil /\ request.state >= StateParsingBody)
      => /\ \A c \in NoLengthCases :
              input = NoLengthBytes(c)
                => pos - readToIndex = NoLengthHeadLength(c)
         /\ \A c \in LengthCases :
              (input = LengthBytes(c) /\ c.n >= 0)
                => pos - readToIndex = HeadLength(c) + Len(request.Body)

(* C29: the parser state never decreases: not from one parseSingle call to  *)
(* the next within an iteration of the loop, not from one iteration to the  *)
(* next, whatever the input and the reads; and nothing changes the Request  *)
(* once RequestFromReader has returned.                                     *)
C29_MonotonicState ==
    [][/\ pc = "loop"
       /\ request'.state >= request.state
       /\ NonDecreasing(<<request.state>> \o StatesIn(request, ParsedData, 0)
                            \o <<request'.state>>)]_vars

C29_Witness ==
    /\ pc = "returned" /\ err = Nil /\ request.state = StateDone
    /\ input = CutRequest /\ rd.n = 1 /\ pos = Len(input)
    /\ request.Body = <<"a", "b", "c">>

(* C30: an iteration of the loop whose Read returned 0 bytes and no error   *)
(* and in which nothing was consumed makes RequestFromReader fail with the  *)
(* no-progress error; every iteration that does not return took at least    *)
(* one new byte from the source, and once the source has none left the      *)
(* next iteration returns: RequestFromReader terminates.                     *)
C30_ProgressOrReturn ==
    [][/\ (rd'.n = 0 /\ rd'.err = Nil /\ readToIndex' = readToIndex)
            => pc' = "returned" /\ err' = ErrNoProgress
       /\ pc' = "loop" => pos' > pos
       /\ Remaining = 0 => pc' # "loop"]_vars

C30_Witness ==
    /\ pc = "returned" /\ err = ErrNoProgress
    /\ rd = [n |-> 0, err |-> Nil]
    /\ request.state = StateParsingHeaders /\ readToIndex > 0

(* C31: in every iteration of the loop 0 <= consumed <= readToIndex <=       *)
(* len(buf) before the compaction; after it buf[0..readToIndex) is the       *)
(* parsed data without its consumed prefix, and that is the last             *)
(* readToIndex bytes read from the source, in source order; the buffer       *)
(* keeps its length or doubles.                                              *)
C31_BufferConservation ==
    [][LET kept(data, p) ==
               /\ 0 <= p.n /\ p.n <= Len(data)
               /\ Len(data) <= Len(Grown(buf, readToIndex))
               /\ Len(buf') = Len(Grown(buf, readToIndex))
               /\ Len(buf') \in {Len(buf), 2 * Len(buf)}
               /\ p.err = Nil =>
                    /\ readToIndex' = Len(data) - p.n
                    /\ SubSeq(buf', 1, readToIndex') = From(data, p.n)
                    /\ SubSeq(buf', 1, readToIndex')
                         = SubSeq(input, pos' - readToIndex' + 1, pos')
       IN kept(ParsedData, parseAndUpdateState(request, ParsedData))]_vars

C31_Witness ==
    /\ pc = "loop" /\ Len(buf) = 4 * bufferSize
    /\ readToIndex > 0 /\ pos - readToIndex > 0
    /\ SubSeq(buf, 1, readToIndex) = SubSeq(input, pos - readToIndex + 1, pos)

\* strings.Index(s, sub): the bytes of s it examines, all of them when sub
\* does not occur
IndexExamines(s, sub) ==
    IF Index(s, sub) = -1 THEN Len(s) ELSE Index(s, sub) + Len(sub)

\* the leading bytes of data one parseSingle call examines in the state of r:
\* the search for the end of the line, for the end of the header section,
\* the bytes copied into the body (n of them)
CallExamines(r, data, n) ==
    IF r.state \in {StateInitialized, StateParsingRequestLine}
    THEN IndexExamines(data, CRLF)
    ELSE IF r.state = StateParsingHeaders
    THEN IndexExamines(data, CRLF \o CRLF)
    ELSE n

\* the leading bytes of data the calls of parseAndUpdateState(r, data) examine
RECURSIVE Examined(_, _, _)
Examined(r, data, totalBytesParsed) ==
    LET rest == From(data, totalBytesParsed)
        after(s) ==
            LET here == totalBytesParsed + CallExamines(r, rest, s.n)
                later == IF s.err # Nil \/ s.n = 0 THEN 0
                         ELSE Examined(s.r, data, totalBytesParsed + s.n)
            IN IF here >= later THEN here ELSE later
    IN IF r.state = StateDone THEN 0
       ELSE after(parseSingle(r, rest))

(* C32: no byte is examined by two calls: a byte an iteration of the loop   *)
(* examined is consumed by it, so that the next parseAndUpdateState call,    *)
(* which is given buf[:readToIndex] from its first byte, does not see it     *)
(* again, also when a request line or a field line arrives in pieces.        *)
C32_NoRescan ==
    [][pc' = "loop"
         => Examined(request, ParsedData, 0) <= Len(ParsedData) - readToIndex']_vars

----------------------------------------------------------------------------
(* The writer: empty chunks and the end of a chunked body *)

(* C33: write_chunked_body with an empty payload, called where it is valid, *)
(* writes nothing to the sink and leaves the state of the writer as it      *)
(* was: a writer in HeadersWritten stays in HeadersWritten.                 *)
C33_EmptyChunkNoEffect ==
    [][(/\ call' = "WriteChunkedBody" /\ ret' = Nil
        /\ payloads' = Append(payloads, <<>>))
          => /\ w'.writer = w.writer
             /\ w'.state = w.state]_vars

\* the writes of the terminating blank line of a chunked body on the sink
FinalCRLFs == SelectSeq(w.writer.out, LAMBDA x : x.kind = "final-crlf")

(* C34: after a successful flush of a writer that reached ChunkedBodyDone   *)
(* the sink holds exactly one terminating blank line, as its last write,    *)
(* after "0" CRLF and the trailer fields: write_trailers or flush wrote it, *)
(* not both and not neither.                                                *)
C34_OneFinalCRLF ==
    (/\ call = "Flush" /\ ret = Nil
     /\ w.state \in {stateChunkedBodyDone, stateTrailersWritten})
      => /\ Len(FinalCRLFs) = 1
         /\ w.writer.out[Len(w.writer.out)].kind = "final-crlf"

(* C35: on a writer that has written a chunk, a flush that returns success *)
(* leaves a complete chunked body on the sink: after the last chunk bytes   *)
(* come "0" CRLF and then the terminating blank line; a flush before        *)
(* write_chunked_body_done does not succeed.                                *)
C35_ChunkStreamTerminated ==
    LET out == w.writer.out IN
    (/\ call = "Flush" /\ ret = Nil
     /\ \E i \in 1..Len(out) : out[i].kind = "chunk-data")
      => /\ w.state \in {stateChunkedBodyDone, stateTrailersWritten}
         /\ \E i, j \in 1..Len(out) :
               /\ i < j
               /\ out[i].kind = "last-chunk" /\ out[j].kind = "final-crlf"
               /\ \A k \in 1..Len(out) : out[k].kind = "chunk-data" => k < i

----------------------------------------------------------------------------
(* The server: what the handler is given, and the order of the steps *)

\* the second part of a line: what follows its first space, up to the next
SecondPart(line) ==
    LET rest == SubSeq(line, FirstSpace(line) + 1, Len(line))
    IN IF Spaces(rest) = {} THEN rest ELSE SubSeq(rest, 1, FirstSpace(rest) - 1)

\* RequestFromReader returned an error on the connection k and its captured
\* bytes hold a target
FailedWithTarget(k) ==
    k.perr \notin {Nil, Panic} /\ ~NoTarget(k.captured)

\* the response of the handler that replies, on the connection
OkResponse ==
    <<[kind |-> "status", bytes |-> StatusLine(StatusOK)],
      [kind |-> "header", bytes |-> FieldLine(ContentLength, <<"3">>)],
      [kind |-> "blank", bytes |-> CRLF],
      [kind |-> "body", bytes |-> OkBody]>>

(* C36: when RequestFromReader fails and the first line of the captured     *)
(* bytes holds a target, the handler is called, once, with a Request whose  *)
(* method is GET, whose version is 1.1, whose headers are empty, whose body *)
(* is absent and whose target is the one extracted; the writer the handler  *)
(* leaves is then flushed to the connection.                                *)
C36_SynthesizedRequest ==
    [][\A c \in Conns :
         LET k == conn[c]
             k2 == conn'[c]
         IN /\ (k.pc = "reading" /\ k2.pc # "reading" /\ FailedWithTarget(k2))
                 => /\ k2.pc = "handler" /\ k2.invoked
                    /\ k2.req.RequestLine.Method = GET
                    /\ k2.req.RequestLine.HttpVersion = V11
                    /\ k2.req.RequestLine.RequestTarget
                         = SecondPart(FirstLineOf(k2.captured))
                    /\ DOMAIN k2.req.Headers = {}
                    /\ k2.req.BodyNil
            /\ (k2.pc = "handler" /\ k2 # k) => k.pc = "reading"
            /\ (k.pc = "handler" /\ FailedWithTarget(k) /\ k2 # k /\ proc' = "up")
                 => \/ k2.pc = "panicking"
                    \/ /\ k2.pc = "flush" /\ k2.req = k.req
                       /\ k2.w.writer.out = <<>>
                       /\ k2.w.state \in {stateInitialized, stateBodyWritten}
            /\ (k.pc = "flush" /\ FailedWithTarget(k) /\ k2 # k /\ proc' = "up")
                 => /\ k2.pc = "return"
                    /\ k.w.state = stateInitialized
                         => k2.ferr = ErrStatusNotSet /\ k2.w.writer.out = <<>>
                    /\ (k.w.state = stateBodyWritten /\ k2.ferr = Nil)
                         => k2.w.writer.out = OkResponse
                    /\ (k.w.state = stateBodyWritten /\ k2.ferr # Nil)
                         => /\ k2.ferr = ErrSink
                            /\ k2.w.writer.out = SubSeq(OkResponse, 1, 1)]_vars

C36_Witness ==
    /\ conn[1].pc = "return" /\ conn[1].invoked /\ conn[1].ferr = Nil
    /\ conn[1].perr = ErrInvalidTarget
    /\ conn[1].req.RequestLine.RequestTarget = <<"x">>
    /\ conn[1].w.writer.out = OkResponse

(* C37: every Request a handler is called with, parsed or synthesized, has  *)
(* a method among GET, POST, PATCH, PUT, DELETE, a target that is not empty *)
(* and begins with "/", and the version 1.1.                                *)
C37_RequestLineInvariant ==
    \A c \in Conns :
        (conn[c].invoked /\ conn[c].pc \in {"handler", "flush", "return"})
          => LET line == conn[c].req.RequestLine
             IN /\ line.Method \in AllowedMethods
                /\ HasPrefixSlash(line.RequestTarget)
                /\ line.HttpVersion = V11

\* the order of the steps of handle on one connection: accepted, the parse,
\* the handler unless the canned response is sent, Flush, the return with
\* the deferred Close
HandleOrder ==
    {<<"none", "reading">>, <<"reading", "handler">>, <<"reading", "flush">>,
     <<"handler", "flush">>, <<"flush", "return">>, <<"return", "closed">>}

(* C38: on every accepted connection the steps are, in this order: the      *)
(* parse, at most one call of the handler, exactly one Flush (of the writer *)
(* given to the handler or of the canned response), the close of the        *)
(* connection; the connection is written only between the end of the parse  *)
(* and its close.                                                           *)
C38_StepOrder ==
    [][\A c \in Conns :
         LET k == conn[c]
             k2 == conn'[c]
         IN /\ k2.pc # k.pc => <<k.pc, k2.pc>> \in HandleOrder
            /\ k2.open # k.open
                 => \/ k.pc = "none" /\ k2.open
                    \/ k.pc = "return" /\ ~k2.open
            /\ k2.w.writer.out # k.w.writer.out
                 => \/ k.pc \in {"handler", "flush"} /\ k.open
                    \/ k2.w.writer.out = <<>>]_vars

----------------------------------------------------------------------------
(* RequestFromReader: what it returns, what it gives Parse *)

\* a non-negative decimal integer
IsDecimal(s) == Len(s) >= 1 /\ \A i \in 1..Len(s) : IsDecDigit(s[i])

(* C39: a Request returned without error is complete: the parser is in     *)
(* Done, the request line is a valid one, the headers are those of the      *)
(* header section, and a content-length, if present, is a non-negative      *)
(* decimal integer n with a body of exactly n bytes (absent or empty for    *)
(* n = 0).                                                                   *)
C39_ReturnedRequestComplete ==
    (pc = "returned" /\ err = Nil)
      => /\ request.state = StateDone
         /\ request.RequestLine.Method \in AllowedMethods
         /\ HasPrefixSlash(request.RequestLine.RequestTarget)
         /\ request.RequestLine.HttpVersion = V11
         /\ \A c \in LengthCases :
              input = LengthBytes(c)
                => DOMAIN request.Headers = {ContentLength}
                     /\ request.Headers[ContentLength] = c.cl
         /\ ContentLength \in DOMAIN request.Headers
              => /\ IsDecimal(request.Headers[ContentLength])
                 /\ Len(request.Body) = DecValue(request.Headers[ContentLength])
                 /\ request.BodyNil => Len(request.Body) = 0

(* C40: the parser never calls Parse with an empty chunk, so that Parse's   *)
(* error for empty data never comes out of RequestFromReader: in            *)
(* ParsingHeaders with no bytes to parse, the parser consumes 0 bytes,      *)
(* changes nothing and returns no error; it waits for more data.            *)
C40_NoEmptyParse ==
    /\ err # WrapHeaderErr(ErrInvalidData)
    /\ request.state = StateParsingHeaders
         => /\ parseSingle(request, <<>>) = [r |-> request, n |-> 0, err |-> Nil]
            /\ parseAndUpdateState(request, <<>>)
                 = [r |-> request, n |-> 0, err |-> Nil]

C40_Witness ==
    /\ pc = "returned" /\ err = ErrNoProgress
    /\ request.state = StateParsingHeaders
    /\ readToIndex = 0 /\ pos > 0
    /\ DOMAIN request.Headers # {}

====
